---------------------------- MODULE Spec2Model ----------------------------
(***************************************************************************)
(* Generator engines of the Random_Number_Generator repository:            *)
(*   - Mersenne Twister MT19937 (mersenne_twister.py) and the state        *)
(*     recovery of ATTACKS/mt_state_recovery.py,                           *)
(*   - HMAC_DRBG (CSPRNG/DRBG.py) and Hash_DRBG (CSPRNG/hash_drbg.py),     *)
(*   - the linear congruential generators (the two LCG.py),                *)
(*   - Blum-Blum-Shub (CSPRNG/BBS.py) and the XOR combiner (xor_nrbg.py),  *)
(*   - the second MT19937 (PRNG_non-cryptographics/MT19937.py).            *)
(*                                                                         *)
(* A 32-bit word is the set of the positions (0 = least significant) of    *)
(* its 1 bits, so that xor, and, or and the shifts of the source are set   *)
(* operations and every result is reduced modulo 2^32 by construction.     *)
(***************************************************************************)
EXTENDS Integers, Sequences, FiniteSets, TLC

VARIABLES
    victim,        \* MT state of the observed generator: [mt, index]
    cloned,        \* MT state rebuilt by clone_mt (index = -1: not built yet)
    observed,      \* outputs collected by the attacker, in emission order
    matches,       \* number of predictions of the clone equal to the victim's
    nskip,         \* extractions of the victim before the observation began
    mtpc,          \* position of the state-recovery scenario
    tx, ty, tz,    \* temper scenario: input word, temper(tx), untemper(ty)
    tpc,           \* position of the temper scenario
    drbg,          \* the two HMAC_DRBG objects: [Key, V, reseed_counter, reseed_interval]
    oracle,        \* the queries made to HMAC and SHA-256 so far, in order
    byteval,       \* the values of the digest bytes that were read as numbers
    out,           \* what the last call returned to each of the two callers
    log,           \* the calls made on the first object, with its state around each
    hst,           \* the Hash_DRBG state: [V, C, reseed_counter]
    hlog,          \* the calls made on the Hash_DRBG state, with the state around each
    lcgp,          \* the seed and the parameters of the two LCG runs: [seed, a, c, m]
    chain,         \* per run, the lcg_next calls chained so far: [state, values]
    res,           \* per run, what its last lcg_generate_* call returned
    ncalls,        \* LCG calls made by the two runs together
    bbs,           \* the BBS state dict: [state, M, p, q]
    bcall,         \* the bbs_init call made: its arguments and how it ended
    bbits,         \* the bits bbs_next_bit has returned, in order
    xin,           \* the list of byte strings handed to the XOR combiner
    xout,          \* what the XOR combiner gave back
    lists,         \* the list objects of the MT states, by reference
    dicts,         \* the MT state dicts, by reference: [mt |-> a list, index]
    vic, clo,      \* the references the victim's owner and the attacker hold
    seen,          \* the outputs of the victim the attacker has collected
    hist,          \* per state dict: extractions made on it, and its twists
    last,          \* the last call made on a state dict
    rnd,           \* the randint call in progress: its locals and its draws
    sh,            \* the MT state two threads share: [mt, index]
    th,            \* per thread: where it is in mt_extract, and its locals
    tr,            \* what the threads did: words read, twists, overlaps
    pk,            \* BBS outputs drawn from one seed: bits, bytes, integers
    mb,            \* MT outputs drawn from one seed: sequences and bytes
    lg             \* the LCG list function and generator run on lcgp

mtvars == <<victim, cloned, observed, matches, nskip, mtpc>>
tvars  == <<tx, ty, tz, tpc>>
dvars  == <<drbg, oracle, byteval, out, log>>
hvars  == <<hst, hlog>>
lvars  == <<lcgp, chain, res, ncalls>>
bvars  == <<bbs, bcall, bbits>>
xvars  == <<xin, xout>>
ovars  == <<lists, dicts, vic, clo, seen, hist, last>>
rvars  == <<rnd>>
cvars  == <<sh, th, tr>>
fvars  == <<pk, mb, lg>>
vars   == <<mtvars, tvars, dvars, hvars, lvars, bvars, xvars, ovars, rvars, cvars, fvars>>

\* what the actions of one engine leave alone: the variables of the others
otherMT     == <<tvars, dvars, hvars, lvars, bvars, xvars, ovars, rvars, cvars, fvars>>
otherTemper == <<mtvars, dvars, hvars, lvars, bvars, xvars, ovars, rvars, cvars, fvars>>
otherDRBG   == <<mtvars, tvars, hvars, lvars, bvars, xvars, ovars, rvars, cvars, fvars>>
otherHash   == <<mtvars, tvars, drbg, byteval, out, log, lvars, bvars, xvars, ovars, rvars, cvars, fvars>>
otherLCG    == <<mtvars, tvars, dvars, hvars, bvars, xvars, ovars, rvars, cvars, fvars>>
otherBBS    == <<mtvars, tvars, dvars, hvars, lvars, xvars, ovars, rvars, cvars, fvars>>
otherXor    == <<mtvars, tvars, dvars, hvars, lvars, bvars, ovars, rvars, cvars, fvars>>
otherObj    == <<mtvars, tvars, dvars, hvars, lvars, bvars, xvars, rvars, cvars, fvars>>
otherRand   == <<mtvars, tvars, hvars, lvars, bvars, xvars, ovars, cvars, fvars>>
otherThr    == <<mtvars, tvars, dvars, hvars, lvars, bvars, xvars, ovars, rvars, fvars>>
otherPack   == <<mtvars, tvars, dvars, hvars, lvars, bvars, xvars, ovars, rvars, cvars, mb, lg>>
otherSame   == <<mtvars, tvars, dvars, hvars, bvars, xvars, ovars, rvars, cvars, pk, mb>>
otherBulk   == <<mtvars, tvars, dvars, hvars, lvars, bvars, xvars, ovars, rvars, cvars, pk, lg>>

---------------------------------------------------------------------------
(* 32-bit words *)

WordBits == 0..31

RECURSIVE Bits(_, _)
\* the 1 bits of the natural number n, the lowest at position i
Bits(n, i) == IF n = 0 THEN {}
              ELSE (IF n % 2 = 1 THEN {i} ELSE {}) \cup Bits(n \div 2, i + 1)

\* the word hi * 2^16 + lo
Word(hi, lo) == Bits(lo, 0) \cup Bits(hi, 16)

Xor(a, b) == (a \ b) \cup (b \ a)
And(a, b) == a \cap b
Or(a, b)  == a \cup b
Shr(a, k) == {i - k : i \in {j \in a : j >= k}}
Shl(a, k) == {i + k : i \in {j \in a : j + k <= 31}}
\* a << k without the reduction to 32 bits (Python integers are unbounded)
ShlWide(a, k) == {i + k : i \in a}

RECURSIVE Add(_, _)
\* (a + b) mod 2^32: b is the carry still to add
Add(a, b) == IF b = {} THEN a ELSE Add(Xor(a, b), Shl(And(a, b), 1))

RECURSIVE MulFrom(_, _, _)
\* (a * b) mod 2^32: the sum of a << j over the 1 bits j of b, from bit j up
MulFrom(a, b, j) == IF j > 31 THEN {}
                    ELSE IF j \in b THEN Add(Shl(a, j), MulFrom(a, b, j + 1))
                    ELSE MulFrom(a, b, j + 1)
Mul(a, b) == MulFrom(a, b, 0)

---------------------------------------------------------------------------
(* Mersenne Twister: constants of mersenne_twister.py *)

N == 624
M == 397
MATRIX_A   == Word(\H9908, \HB0DF)
UPPER_MASK == Word(\H8000, \H0000)
LOWER_MASK == Word(\H7FFF, \HFFFF)
MASK_32    == Word(\HFFFF, \HFFFF)
InitMult   == Word(\H6C07, \H8965)      \* 1812433253
TemperB    == Word(\H9D2C, \H5680)
TemperC    == Word(\HEFC6, \H0000)

RECURSIVE InitFill(_, _, _)
\* the loop of mt_init for i in lo..hi-1, on the list built so far
InitFill(mt, lo, hi) ==
    IF hi <= lo THEN mt
    ELSE IF hi = lo + 1
         THEN LET prev == mt[lo - 1]
              IN  [mt EXCEPT ![lo] =
                     And(Add(Mul(InitMult, Xor(prev, Shr(prev, 30))), Bits(lo, 0)),
                         MASK_32)]
         ELSE LET mid  == (lo + hi) \div 2
                  done == InitFill(mt, lo, mid)
              IN  \* the test evaluates the first half before the second starts
                  IF done[lo] \subseteq WordBits THEN InitFill(done, mid, hi) ELSE done

\* seed is a word here: seed & MASK_32 is taken on the integer by the caller
mt_init(seed) ==
    LET mt0 == [i \in 0..(N - 1) |-> IF i = 0 THEN And(seed, MASK_32) ELSE {}]
    IN  [mt |-> InitFill(mt0, 1, N), index |-> N]

\* one iteration of the loop of mt_twist, in place
TwistStep(mt, i) ==
    LET x   == Or(And(mt[i], UPPER_MASK), And(mt[(i + 1) % N], LOWER_MASK))
        x_a == IF 0 \in x THEN Xor(Shr(x, 1), MATRIX_A) ELSE Shr(x, 1)
    IN  [mt EXCEPT ![i] = Xor(mt[(i + M) % N], x_a)]

RECURSIVE TwistLoop(_, _, _)
\* the loop of mt_twist for i in lo..hi-1
TwistLoop(mt, lo, hi) ==
    IF hi <= lo THEN mt
    ELSE IF hi = lo + 1 THEN TwistStep(mt, lo)
    ELSE LET mid  == (lo + hi) \div 2
             done == TwistLoop(mt, lo, mid)
         IN  \* the test evaluates the first half before the second starts
             IF done[lo] \subseteq WordBits THEN TwistLoop(done, mid, hi) ELSE done

mt_twist(state) == [mt |-> TwistLoop(state.mt, 0, N), index |-> 0]

temper(y) ==
    LET y1 == Xor(y, Shr(y, 11))
        y2 == Xor(y1, And(ShlWide(y1, 7), TemperB))
        y3 == Xor(y2, And(ShlWide(y2, 15), TemperC))
        y4 == Xor(y3, Shr(y3, 18))
    IN  y4

\* untemper with one iteration too few in the inverse of y ^= (y << 7) & B
untemper_short(y) ==
    LET y1 == Xor(y, Shr(y, 18))
        y2 == Xor(y1, And(ShlWide(y1, 15), TemperC))
        t1 == Xor(y2, And(ShlWide(y2, 7), TemperB))
        t2 == Xor(y2, And(ShlWide(t1, 7), TemperB))
        t3 == Xor(y2, And(ShlWide(t2, 7), TemperB))
        u1 == Xor(t3, Shr(t3, 11))
        u2 == Xor(t3, Shr(u1, 11))
    IN  And(u2, MASK_32)

\* untemper with one iteration too few in the inverse of y ^= (y >> 11)
untemper_oneShift(y) ==
    LET y1 == Xor(y, Shr(y, 18))
        y2 == Xor(y1, And(ShlWide(y1, 15), TemperC))
        t1 == Xor(y2, And(ShlWide(y2, 7), TemperB))
        t2 == Xor(y2, And(ShlWide(t1, 7), TemperB))
        t3 == Xor(y2, And(ShlWide(t2, 7), TemperB))
        t4 == Xor(y2, And(ShlWide(t3, 7), TemperB))
        u1 == Xor(t4, Shr(t4, 11))
    IN  And(u1, MASK_32)

untemper(y) ==
    LET y1 == Xor(y, Shr(y, 18))
        y2 == Xor(y1, And(ShlWide(y1, 15), TemperC))
        t1 == Xor(y2, And(ShlWide(y2, 7), TemperB))
        t2 == Xor(y2, And(ShlWide(t1, 7), TemperB))
        t3 == Xor(y2, And(ShlWide(t2, 7), TemperB))
        t4 == Xor(y2, And(ShlWide(t3, 7), TemperB))
        u1 == Xor(t4, Shr(t4, 11))
        u2 == Xor(t4, Shr(u1, 11))
    IN  And(u2, MASK_32)

\* mt_extract that twists one extraction early
mt_extract_earlyTwist(state) ==
    LET s == IF state.index >= N - 1 THEN mt_twist(state) ELSE state
        y == temper(s.mt[s.index])
    IN  <<And(y, MASK_32), [s EXCEPT !.index = s.index + 1]>>

\* mt_extract: the returned pair <<value, state>>
mt_extract(state) ==
    LET s == IF state.index >= N THEN mt_twist(state) ELSE state
        y == temper(s.mt[s.index])
    IN  <<And(y, MASK_32), [s EXCEPT !.index = s.index + 1]>>

---------------------------------------------------------------------------
(* State recovery: ATTACKS/mt_state_recovery.py *)

\* seeds of the victim (os.urandom(4) in the demonstration)
Seeds == {0, 42, 5489}
\* the observation starts after 0..MaxSkip extractions of the victim, or
\* around the two places where the twist changes its behaviour: N - M
\* extractions (mt[(i + M) % N] is a word of the new block from there on)
\* and N extractions (the cursor is on the block boundary)
MaxSkip == 3
ObservePoints ==
    (0..MaxSkip) \cup {N - M - 1, N - M, N - M + 1} \cup {N - 1, N, N + 1}
LastPoint == N + 1
n_predictions == 1000

NoMt == [mt |-> <<>>, index |-> -1]

\* clone_mt that leaves the cursor at 0 instead of forcing a twist
clone_mt_noTwist(outputs) ==
    IF Len(outputs) # N THEN NoMt
    ELSE [mt |-> [i \in 0..(N - 1) |-> untemper(outputs[i + 1])], index |-> 0]

\* clone_mt: the assert refuses any other number of outputs (no state is
\* returned); every word of the list of mt_init(seed=0) is then overwritten
clone_mt(outputs) ==
    IF Len(outputs) # N THEN NoMt
    ELSE [mt |-> [i \in 0..(N - 1) |-> untemper(outputs[i + 1])], index |-> N]

RECURSIVE ObserveLoop(_, _, _)
\* the collecting loop: acc = <<victim, observed>>, k iterations
ObserveLoop(v, obs, k) ==
    IF k = 0 THEN <<v, obs>>
    ELSE IF k = 1
         THEN LET r == mt_extract(v) IN <<r[2], Append(obs, r[1])>>
         ELSE LET half == k \div 2
                  done == ObserveLoop(v, obs, half)
              IN  IF done[1].index >= 0
                  THEN ObserveLoop(done[1], done[2], k - half) ELSE done

RECURSIVE PredictLoop(_, _, _, _)
\* the prediction loop: k lockstep extractions of the victim and the clone,
\* m = the number of equal pairs so far
PredictLoop(v, c, m, k) ==
    IF k = 0 THEN <<v, c, m>>
    ELSE IF k = 1
         THEN LET rv == mt_extract(v)
                  rc == mt_extract(c)
              IN  <<rv[2], rc[2], IF rv[1] = rc[1] THEN m + 1 ELSE m>>
         ELSE LET half == k \div 2
                  done == PredictLoop(v, c, m, half)
              IN  IF done[3] >= 0
                  THEN PredictLoop(done[1], done[2], done[3], k - half) ELSE done

InitMT ==
    /\ \E seed \in Seeds : victim = mt_init(Bits(seed, 0))
    /\ cloned = NoMt
    /\ observed = <<>>
    /\ matches = 0
    /\ nskip = 0
    /\ mtpc = "run"

\* the victim serves another caller before the attacker starts to observe
VictimExtract ==
    /\ mtpc = "run"
    /\ nskip < LastPoint
    /\ victim' = mt_extract(victim)[2]
    /\ nskip' = nskip + 1
    /\ UNCHANGED <<cloned, observed, matches, mtpc>>
    /\ UNCHANGED otherMT

\* step 1: the attacker collects N consecutive outputs
Observe ==
    /\ mtpc = "run"
    /\ nskip \in ObservePoints
    /\ LET r == ObserveLoop(victim, <<>>, N)
       IN  victim' = r[1] /\ observed' = r[2]
    /\ mtpc' = "observed"
    /\ UNCHANGED <<cloned, matches, nskip>>
    /\ UNCHANGED otherMT

\* step 2: clone_mt(observed)
Clone ==
    /\ mtpc = "observed"
    /\ cloned' = clone_mt(observed)
    /\ mtpc' = "cloned"
    /\ UNCHANGED <<victim, observed, matches, nskip>>
    /\ UNCHANGED otherMT

\* step 3: n_predictions outputs of the victim and of the clone are compared
Predict ==
    /\ mtpc = "cloned"
    /\ cloned.index >= 0
    /\ LET r == PredictLoop(victim, cloned, 0, n_predictions)
       IN  victim' = r[1] /\ cloned' = r[2] /\ matches' = r[3]
    /\ mtpc' = "done"
    /\ UNCHANGED <<observed, nskip>>
    /\ UNCHANGED otherMT

NextMT == VictimExtract \/ Observe \/ Clone \/ Predict

IdleMT ==
    /\ victim = NoMt /\ cloned = NoMt /\ observed = <<>>
    /\ matches = 0 /\ nskip = 0 /\ mtpc = "idle"

---------------------------------------------------------------------------
(* temper / untemper on their own *)

\* the input words have at most MaxOnes bits set, or at most MaxOnes clear
MaxOnes == 2

RECURSIVE FewBits(_)
\* the words with at most k bits set
FewBits(k) ==
    IF k = 0 THEN {{}}
    ELSE LET fewer == FewBits(k - 1)
         IN  fewer \cup {w \cup {i} : w \in fewer, i \in WordBits}

TemperInputs == FewBits(MaxOnes) \cup {WordBits \ w : w \in FewBits(MaxOnes)}

InitTemper ==
    /\ tx \in TemperInputs
    /\ ty = {} /\ tz = {}
    /\ tpc = "input"

Temper ==
    /\ tpc = "input"
    /\ ty' = temper(tx)
    /\ tpc' = "tempered"
    /\ UNCHANGED <<tx, tz>>
    /\ UNCHANGED otherTemper

Untemper ==
    /\ tpc = "tempered"
    /\ tz' = untemper(ty)
    /\ tpc' = "untempered"
    /\ UNCHANGED <<tx, ty>>
    /\ UNCHANGED otherTemper

\* the other way round: the word is taken for an output and untempered
UntemperFirst ==
    /\ tpc = "input"
    /\ ty' = untemper(tx)
    /\ tpc' = "inverted"
    /\ UNCHANGED <<tx, tz>>
    /\ UNCHANGED otherTemper

\* the state word found is tempered again
TemperBack ==
    /\ tpc = "inverted"
    /\ tz' = temper(ty)
    /\ tpc' = "retempered"
    /\ UNCHANGED <<tx, ty>>
    /\ UNCHANGED otherTemper

NextTemper == Temper \/ Untemper \/ UntemperFirst \/ TemperBack

IdleTemper == tx = {} /\ ty = {} /\ tz = {} /\ tpc = "idle"

---------------------------------------------------------------------------
(* Byte strings and the hash primitives                                    *)
(*                                                                         *)
(* A byte is a pair: <<0, b>> is the literal byte b, <<d, j>> with d > 0   *)
(* is byte j of the d-th digest computed so far.  HMAC and SHA-256 are the *)
(* library's: a digest is known by the query that produced it (the same    *)
(* query gives the same digest, another query another digest), and the     *)
(* value of a digest byte is fixed, in byteval, when the program first     *)
(* reads it as a number.  The sum of digests taken as integers, which the   *)
(* Hash_DRBG computes, is known by its operands in the same way.           *)

Lit(b) == <<0, b>>
Rep(b, n) == [j \in 1..n |-> Lit(b)]

\* a slice that forgets to cut
Take_whole(bytes, n) == bytes

\* bytes[:n] of Python
Take(bytes, n) ==
    IF n >= 0 THEN SubSeq(bytes, 1, IF n < Len(bytes) THEN n ELSE Len(bytes))
    ELSE SubSeq(bytes, 1, IF Len(bytes) + n > 0 THEN Len(bytes) + n ELSE 0)

\* digest_size of hashlib.sha256
outlen == 32

\* the n bytes of the d-th result
SymBytes(d, n) == [j \in 1..n |-> <<d, j>>]

\* the n-byte result of query q = <<function, byte strings, integer>>:
\* [d |-> its bytes, tbl |-> the queries made once it is answered]
Query(tbl, q, n) ==
    IF \E i \in 1..Len(tbl) : tbl[i] = q
    THEN [d |-> SymBytes(CHOOSE i \in 1..Len(tbl) : tbl[i] = q, n), tbl |-> tbl]
    ELSE [d |-> SymBytes(Len(tbl) + 1, n), tbl |-> Append(tbl, q)]

\* hmac.new(key, msg, sha256).digest()
Hmac(tbl, key, msg) == Query(tbl, <<"hmac", <<key, msg>>, 0>>, outlen)

\* hashlib.sha256(data).digest()
Sha256(tbl, data) == Query(tbl, <<"sha256", <<data>>, 0>>, outlen)

\* the sum kept with its carry, one byte more than n
AddMod_carry(tbl, terms, k, n) == Query(tbl, <<"add", terms, k>>, n + 1)

\* ((the sum of the big-endian integers terms) + k) % 2^(8n), as n bytes:
\* the sum of digests is known by its operands, as a digest is
AddMod(tbl, terms, k, n) == Query(tbl, <<"add", terms, k>>, n)

---------------------------------------------------------------------------
(* HMAC_DRBG: CSPRNG/DRBG.py                                               *)
(*                                                                         *)
(* None and b'' are both false in every test the class makes of an         *)
(* optional argument, so an absent argument is the empty string here.  An  *)
(* operation works on c = [st |-> the object, tbl |-> oracle] and returns  *)
(* c again, extended with what it gives back to the caller.                *)

None == <<>>

\* one round of _update: Key = HMAC(Key, V || sep || provided_data), and
\* then V = HMAC(Key, V) with the new Key, digest v
NewKeyV(c, Key, v) == [st |-> [c.st EXCEPT !.Key = Key, !.V = v.d], tbl |-> v.tbl]
NewKey(c, k) == NewKeyV(c, k.d, Hmac(k.tbl, k.d, c.st.V))
UpdateRound(c, sep, provided_data) ==
    NewKey(c, Hmac(c.tbl, c.st.Key, c.st.V \o <<Lit(sep)>> \o provided_data))

\* _update(provided_data): a second round, with 0x01, when data is provided
HMAC_update(c, provided_data) ==
    IF provided_data # <<>>
    THEN UpdateRound(UpdateRound(c, 0, provided_data), 1, provided_data)
    ELSE UpdateRound(c, 0, <<>>)

\* a counter that starts from 0
ResetCounter_zero(c) == [c EXCEPT !.st.reseed_counter = 0]

\* self.reseed_counter = 1
ResetCounter(c) == [c EXCEPT !.st.reseed_counter = 1]

\* the object before _instantiate has run
NewObject(interval) ==
    [Key |-> Rep(0, outlen), V |-> Rep(1, outlen),
     reseed_counter |-> 0, reseed_interval |-> interval]

\* _instantiate that draws a nonce from the system when it is given none:
\* the bytes drawn differ from one call to the next
HMAC_instantiate_urandom(tbl, entropy, nonce, personalization, interval) ==
    LET drawn == IF nonce # <<>> THEN nonce ELSE <<Lit(200 + Len(tbl))>>
        seed_material == entropy \o drawn \o personalization
    IN  ResetCounter(HMAC_update([st |-> NewObject(interval), tbl |-> tbl],
                                 seed_material))

\* __init__ and _instantiate: seed_material is entropy, then the nonce and
\* the personalization that are given
HMAC_instantiate(tbl, entropy, nonce, personalization, interval) ==
    LET seed_material == entropy \o nonce \o personalization
    IN  ResetCounter(HMAC_update([st |-> NewObject(interval), tbl |-> tbl],
                                 seed_material))

\* reseed that forgets to reset reseed_counter
HMAC_reseed_noReset(c, entropy, additional_input) ==
    HMAC_update(c, entropy \o additional_input)

\* reseed(entropy, additional_input)
HMAC_reseed(c, entropy, additional_input) ==
    ResetCounter(HMAC_update(c, entropy \o additional_input))

\* one iteration of the while loop: V = HMAC(Key, V), digest v; temp += V
NextBlock(c, temp, v) ==
    [st |-> [c.st EXCEPT !.V = v.d], tbl |-> v.tbl, temp |-> temp \o v.d]

RECURSIVE GenLoop(_, _)
\* the while loop of generate: g.temp grows by one digest per iteration
GenLoop(g, num_bytes) ==
    IF Len(g.temp) < num_bytes
    THEN GenLoop(NextBlock(g, g.temp, Hmac(g.tbl, g.st.Key, g.st.V)), num_bytes)
    ELSE g

\* what generate returns: the bytes, or None when a reseed is required
Refused == [ok |-> FALSE, bytes |-> <<>>]
Bytes(b) == [ok |-> TRUE, bytes |-> b]

\* generate until the additional input is mixed in (lines 132-134)
MixInput(c, additional_input) ==
    IF additional_input # <<>> THEN HMAC_update(c, additional_input) ELSE c

\* generate from the while loop to temp[:num_bytes] (lines 136-142)
Blocks(c, num_bytes) ==
    GenLoop([st |-> c.st, tbl |-> c.tbl, temp |-> <<>>], num_bytes)

\* the end of generate without the increment of reseed_counter
Counted_notCounted(c2, random_bytes) ==
    [st |-> c2.st, tbl |-> c2.tbl, ret |-> Bytes(random_bytes)]

\* the end of generate: reseed_counter += 1 on the updated object c2
Counted(c2, random_bytes) ==
    [st |-> [c2.st EXCEPT !.reseed_counter = c2.st.reseed_counter + 1],
     tbl |-> c2.tbl, ret |-> Bytes(random_bytes)]

\* the end of generate with an update only when additional input is given
AfterLoop_condUpdate(g, num_bytes, additional_input) ==
    Counted(MixInput([st |-> g.st, tbl |-> g.tbl], additional_input),
            Take(g.temp, num_bytes))

\* generate after the while loop has left g (lines 142-151)
AfterLoop(g, num_bytes, additional_input) ==
    Counted(HMAC_update([st |-> g.st, tbl |-> g.tbl], additional_input),
            Take(g.temp, num_bytes))

\* generate with >= in the reseed test
HMAC_generate_offByOne(c, num_bytes, additional_input) ==
    IF c.st.reseed_counter >= c.st.reseed_interval
    THEN [st |-> c.st, tbl |-> c.tbl, ret |-> Refused]
    ELSE AfterLoop(Blocks(MixInput(c, additional_input), num_bytes),
                   num_bytes, additional_input)

\* generate that mixes the additional input in before the reseed test
HMAC_generate_lateCheck(c, num_bytes, additional_input) ==
    LET c1 == MixInput(c, additional_input)
    IN  IF c1.st.reseed_counter > c1.st.reseed_interval
        THEN [st |-> c1.st, tbl |-> c1.tbl, ret |-> Refused]
        ELSE AfterLoop(Blocks(c1, num_bytes), num_bytes, additional_input)

\* generate that computes the output but does not store the new Key and V
HMAC_generate_stateless(c, num_bytes, additional_input) ==
    IF c.st.reseed_counter > c.st.reseed_interval
    THEN [st |-> c.st, tbl |-> c.tbl, ret |-> Refused]
    ELSE LET g == Blocks(MixInput(c, additional_input), num_bytes)
         IN  [st |-> [c.st EXCEPT !.reseed_counter = c.st.reseed_counter + 1],
              tbl |-> g.tbl, ret |-> Bytes(Take(g.temp, num_bytes))]

\* generate(num_bytes, additional_input): [st, tbl, ret]
HMAC_generate(c, num_bytes, additional_input) ==
    IF c.st.reseed_counter > c.st.reseed_interval
    THEN [st |-> c.st, tbl |-> c.tbl, ret |-> Refused]
    ELSE AfterLoop(Blocks(MixInput(c, additional_input), num_bytes),
                   num_bytes, additional_input)

\* what a call gives back: kind says which of the results of the class
\* it is, val holds the bytes, the bits or the integer
Ret(kind, val) == [kind |-> kind, val |-> val]
NoRet == Ret("none", <<>>)

\* the value of a byte once it is read as a number
ByteValue(bv, byte) == IF byte[1] = 0 THEN byte[2] ELSE bv[byte]

\* the digest bytes of a string that have not been read as numbers yet
Unread(bv, bytes) ==
    {bytes[i] : i \in {j \in 1..Len(bytes) :
                         bytes[j][1] # 0 /\ bytes[j] \notin DOMAIN bv}}

\* the values a digest byte may turn out to have (top bits 01 and 11)
ByteVals == {64, 192}

RECURSIVE Pow2(_)
Pow2(k) == IF k = 0 THEN 1 ELSE 2 * Pow2(k - 1)

\* the bit string with each byte written least significant bit first
BitString_lsbFirst(bv, bytes) ==
    [k \in 1..(8 * Len(bytes)) |->
        (ByteValue(bv, bytes[((k - 1) \div 8) + 1]) \div Pow2((k - 1) % 8)) % 2]

\* ''.join(format(byte, '08b') for byte in random_bytes)
BitString(bv, bytes) ==
    [k \in 1..(8 * Len(bytes)) |->
        (ByteValue(bv, bytes[((k - 1) \div 8) + 1]) \div Pow2(7 - ((k - 1) % 8))) % 2]

RECURSIVE BitsToInt(_)
\* int(bit_string, 2)
BitsToInt(bits) ==
    IF bits = <<>> THEN 0
    ELSE 2 * BitsToInt(SubSeq(bits, 1, Len(bits) - 1)) + bits[Len(bits)]

RECURSIVE bit_length(_)
bit_length(n) == IF n = 0 THEN 0 ELSE 1 + bit_length(n \div 2)

\* the outcome [st, tbl, bv, ret] of a generate call that has returned g
GenerateOutcome(g, bv) ==
    {[st |-> g.st, tbl |-> g.tbl, bv |-> bv,
      ret |-> IF g.ret.ok THEN Ret("bytes", g.ret.bytes) ELSE NoRet]}

\* generate(...) as a call of its own
GenerateCall(c, bv, num_bytes, additional_input) ==
    GenerateOutcome(HMAC_generate(c, num_bytes, additional_input), bv)

ReseedOutcome(r, bv) == {[st |-> r.st, tbl |-> r.tbl, bv |-> bv, ret |-> NoRet]}

\* reseed(...) as a call of its own
ReseedCall(c, bv, entropy, additional_input) ==
    ReseedOutcome(HMAC_reseed(c, entropy, additional_input), bv)

\* generate_bits once generate has returned g: the possible outcomes, one
\* for each value the bytes read for the first time may have
BitsOutcomes(g, bv, num_bits) ==
    IF ~g.ret.ok
    THEN {[st |-> g.st, tbl |-> g.tbl, bv |-> bv, ret |-> NoRet]}
    ELSE {[st |-> g.st, tbl |-> g.tbl, bv |-> f @@ bv,
           ret |-> Ret("bits", Take(BitString(f @@ bv, g.ret.bytes), num_bits))] :
             f \in [Unread(bv, g.ret.bytes) -> ByteVals]}

\* generate_bits(num_bits, additional_input)
HMAC_generate_bits(c, bv, num_bits, additional_input) ==
    BitsOutcomes(HMAC_generate(c, (num_bits + 7) \div 8, additional_input),
                 bv, num_bits)

max_attempts == 1000

RECURSIVE RandintLoop(_, _, _, _, _, _)
\* the for loop of randint from iteration number attempt on
RandintLoop(c, bv, a, range_size, additional_input, attempt) ==
    IF attempt >= max_attempts
    THEN {[st |-> c.st, tbl |-> c.tbl, bv |-> bv, ret |-> Ret("RuntimeError", <<>>)]}
    ELSE UNION {
           IF o.ret.kind = "none" THEN {o}
           ELSE IF BitsToInt(o.ret.val) < range_size
                THEN {[o EXCEPT !.ret = Ret("int", <<a + BitsToInt(o.ret.val)>>)]}
                ELSE RandintLoop([st |-> o.st, tbl |-> o.tbl], o.bv, a, range_size,
                                 additional_input, attempt + 1) :
           o \in HMAC_generate_bits(c, bv, bit_length(range_size), additional_input)}

\* randint(a, b, additional_input)
HMAC_randint(c, bv, a, b, additional_input) ==
    IF a > b
    THEN {[st |-> c.st, tbl |-> c.tbl, bv |-> bv, ret |-> Ret("ValueError", <<>>)]}
    ELSE RandintLoop(c, bv, a, b - a + 1, additional_input, 0)

---------------------------------------------------------------------------
(* HMAC_DRBG objects and their callers.  SpecDRBG has one object; SpecPair *)
(* has two, built from the same arguments, and every call is made on the   *)
(* first object and then on the second.                                    *)

\* the largest reseed_interval an object is given (10000 when left alone)
MaxInterval == 2
\* calls made on the object of SpecDRBG
MaxCalls == 3
\* calls made on each object of SpecPair
MaxPairCalls == 2

Entropies == {<<Lit(17), Lit(18)>>}
Nonces    == {None, <<Lit(34)>>}
Personalizations == {None, <<Lit(68)>>}
AI == <<Lit(7)>>
ReseedEntropy == <<Lit(51)>>

\* the calls of the callers: <<num_bytes, additional_input>>,
\* <<num_bits, additional_input>>, <<a, b, additional_input>> and
\* <<entropy, additional_input>>
GenerateArgs     == {<<0, None>>, <<outlen + 1, None>>, <<outlen, AI>>}
GenerateBitsArgs == {<<3, AI>>}
RandintArgs      == {<<5, 7, None>>, <<7, 5, None>>}
ReseedArgs       == {<<ReseedEntropy, None>>, <<ReseedEntropy, AI>>}

InitObjects(n) ==
    /\ \E e \in Entropies, nc \in Nonces, p \in Personalizations, r \in 1..MaxInterval :
         LET c1 == HMAC_instantiate(<<>>, e, nc, p, r)
             c2 == HMAC_instantiate(c1.tbl, e, nc, p, r)
         IN  IF n = 1 THEN drbg = <<c1.st>> /\ oracle = c1.tbl
             ELSE drbg = <<c1.st, c2.st>> /\ oracle = c2.tbl
    /\ byteval = <<>>
    /\ out = [i \in 1..n |-> NoRet]
    /\ log = <<>>

InitDRBG == InitObjects(1)
InitPair == InitObjects(2)

Entry(call, o) == [call |-> call, pre |-> drbg[1], post |-> o.st, ret |-> o.ret]

Call(op, num, lo, hi, entropy, ai) ==
    [op |-> op, num |-> num, lo |-> lo, hi |-> hi, entropy |-> entropy, ai |-> ai]

\* the outcomes of the method call on the object c
Apply(c, bv, call) ==
    CASE call.op = "generate" -> GenerateCall(c, bv, call.num, call.ai)
      [] call.op = "generate_bits" -> HMAC_generate_bits(c, bv, call.num, call.ai)
      [] call.op = "randint" -> HMAC_randint(c, bv, call.lo, call.hi, call.ai)
      [] call.op = "reseed" -> ReseedCall(c, bv, call.entropy, call.ai)

\* the calls a caller may still make
CallBound == IF Len(drbg) = 1 THEN MaxCalls ELSE MaxPairCalls

\* the call made on the first object, then on the second if any
Drive(call) ==
    \E o1 \in Apply([st |-> drbg[1], tbl |-> oracle], byteval, call) :
        IF Len(drbg) = 1
        THEN /\ drbg' = <<o1.st>>
             /\ oracle' = o1.tbl
             /\ byteval' = o1.bv
             /\ out' = <<o1.ret>>
             /\ log' = Append(log, Entry(call, o1))
        ELSE \E o2 \in Apply([st |-> drbg[2], tbl |-> o1.tbl], o1.bv, call) :
             /\ drbg' = <<o1.st, o2.st>>
             /\ oracle' = o2.tbl
             /\ byteval' = o2.bv
             /\ out' = <<o1.ret, o2.ret>>
             /\ log' = Append(log, Entry(call, o1))

Generate ==
    /\ Len(log) < CallBound
    /\ \E a \in GenerateArgs : Drive(Call("generate", a[1], 0, 0, <<>>, a[2]))
    /\ UNCHANGED otherDRBG

GenerateBits ==
    /\ Len(log) < CallBound
    /\ \E a \in GenerateBitsArgs :
         Drive(Call("generate_bits", a[1], 0, 0, <<>>, a[2]))
    /\ UNCHANGED otherDRBG

Randint ==
    /\ Len(log) < CallBound
    /\ \E a \in RandintArgs : Drive(Call("randint", 0, a[1], a[2], <<>>, a[3]))
    /\ UNCHANGED otherDRBG

Reseed ==
    /\ Len(log) < CallBound
    /\ \E a \in ReseedArgs : Drive(Call("reseed", 0, 0, 0, a[1], a[2]))
    /\ UNCHANGED otherDRBG

NextDRBG == Generate \/ GenerateBits \/ Randint \/ Reseed

IdleDRBG ==
    /\ drbg = <<>> /\ oracle = <<>> /\ byteval = <<>>
    /\ out = <<>> /\ log = <<>>

---------------------------------------------------------------------------
(* generate and generate_bits of HMAC_DRBG with any length, the negative   *)
(* ones included                                                           *)

\* calls made on the object
MaxLengthCalls == 2

\* the num_bits and the num_bytes of the callers
BitCounts == {-9, -1, 0, 1, 3, 8, 11, 16}
ByteCounts == {-1, 0, 1}

\* generate_bits(num_bits)
GenerateBitsAny ==
    /\ Len(log) < MaxLengthCalls
    /\ \E n \in BitCounts : Drive(Call("generate_bits", n, 0, 0, <<>>, None))
    /\ UNCHANGED otherDRBG

\* generate(num_bytes)
GenerateAny ==
    /\ Len(log) < MaxLengthCalls
    /\ \E n \in ByteCounts : Drive(Call("generate", n, 0, 0, <<>>, None))
    /\ UNCHANGED otherDRBG

NextLengths == GenerateBitsAny \/ GenerateAny

---------------------------------------------------------------------------
(* randint of HMAC_DRBG, one loop iteration at a time *)

\* self.reseed_interval of __init__
reseed_interval == 10000

\* the intervals of the objects randint is called on
RandIntervals == (1..MaxInterval) \cup {reseed_interval}

\* the calls randint(a, b) of the callers
RandArgs == {<<5, 8>>, <<5, 5>>, <<0, 6>>, <<5, 7>>, <<7, 5>>}

\* the locals of randint once it has returned or raised
RandDone(r, kind, val) == [r EXCEPT !.pc = "done", !.ret = Ret(kind, val)]

\* randint without the test of its bounds
RandEnter_noCheck(a, b) ==
    [pc |-> "loop", a |-> a, b |-> b, range_size |-> b - a + 1,
     num_bits |-> bit_length(IF a > b THEN a - b - 1 ELSE b - a + 1),
     attempt |-> 0, draws |-> 0, asked |-> {}, value |-> <<>>, ret |-> NoRet]

\* randint down to the for loop (lines 190-197)
RandEnter(a, b) ==
    IF a > b
    THEN [pc |-> "done", a |-> a, b |-> b, range_size |-> 0, num_bits |-> 0,
          attempt |-> 0, draws |-> 0, asked |-> {},
          value |-> <<>>, ret |-> Ret("ValueError", <<>>)]
    ELSE [pc |-> "loop", a |-> a, b |-> b, range_size |-> b - a + 1,
          num_bits |-> bit_length(b - a + 1), attempt |-> 0, draws |-> 0,
          asked |-> {}, value |-> <<>>, ret |-> NoRet]

\* for _ in range(max_attempts): another iteration starts
LoopRuns(attempt) == attempt < max_attempts

\* the draw of an iteration has been made and gave o: r with the draw
\* counted and value = int(bit_string, 2), if there is a bit string
Drawn(r, o) ==
    [r EXCEPT !.draws = r.draws + 1, !.asked = r.asked \cup {r.num_bits},
              !.value = IF o.ret.kind = "none" THEN <<>>
                        ELSE <<BitsToInt(o.ret.val)>>]

\* an iteration that takes a refused draw for a rejected one
RandAfterDraw_refusedRetried(r, o) ==
    IF o.ret.kind # "none" /\ BitsToInt(o.ret.val) < r.range_size
    THEN RandDone(r, "int", <<r.a + BitsToInt(o.ret.val)>>)
    ELSE [r EXCEPT !.attempt = r.attempt + 1]

\* the rest of an iteration (lines 200-205), o = what generate_bits gave
RandAfterDraw(r, o) ==
    IF o.ret.kind = "none" THEN RandDone(r, "none", <<>>)
    ELSE IF BitsToInt(o.ret.val) < r.range_size
         THEN RandDone(r, "int", <<r.a + BitsToInt(o.ret.val)>>)
         ELSE [r EXCEPT !.attempt = r.attempt + 1]

InitRand ==
    /\ \E e \in Entropies, r \in RandIntervals :
         /\ drbg = <<HMAC_instantiate(<<>>, e, None, None, r).st>>
         /\ oracle = HMAC_instantiate(<<>>, e, None, None, r).tbl
    /\ byteval = <<>>
    /\ out = <<NoRet>>
    /\ log = <<>>
    /\ rnd = [pc |-> "idle"]

\* the caller calls randint(a, b)
RandintEnter ==
    /\ rnd.pc = "idle"
    /\ \E args \in RandArgs : rnd' = RandEnter(args[1], args[2])
    /\ UNCHANGED <<drbg, oracle, byteval, out, log>>
    /\ UNCHANGED otherRand

\* one iteration of the for loop: bit_string = self.generate_bits(num_bits)
\* and what follows it
RandintAttempt ==
    /\ rnd.pc = "loop"
    /\ LoopRuns(rnd.attempt)
    /\ \E o \in HMAC_generate_bits([st |-> drbg[1], tbl |-> oracle], byteval,
                                   rnd.num_bits, None) :
         /\ drbg' = <<o.st>>
         /\ oracle' = o.tbl
         /\ byteval' = o.bv
         /\ rnd' = RandAfterDraw(Drawn(rnd, o), o)
    /\ out' = <<rnd'.ret>>
    /\ UNCHANGED log
    /\ UNCHANGED otherRand

\* the for loop is over: raise RuntimeError (line 207)
RandintExhaust ==
    /\ rnd.pc = "loop"
    /\ ~LoopRuns(rnd.attempt)
    /\ rnd' = RandDone(rnd, "RuntimeError", <<>>)
    /\ out' = <<rnd'.ret>>
    /\ UNCHANGED <<drbg, oracle, byteval, log>>
    /\ UNCHANGED otherRand

NextRand == RandintEnter \/ RandintAttempt \/ RandintExhaust

---------------------------------------------------------------------------
(* Hash_DRBG: GENERATORS/CSPRNG/hash_drbg.py *)

SEED_LEN == 55
hash_len == 32

RECURSIVE ToBytes(_, _)
\* n.to_bytes(len, "big")
ToBytes(n, len) ==
    IF len = 0 THEN <<>> ELSE Append(ToBytes(n \div 256, len - 1), Lit(n % 256))

RECURSIVE HashDfLoop(_, _, _, _, _)
\* the loop of _hash_df from counter on: [d |-> result, tbl]
HashDfLoop(tbl, input_data, num_bytes, counter, num_blocks) ==
    IF counter > num_blocks THEN [d |-> <<>>, tbl |-> tbl]
    ELSE LET h == Sha256(tbl, ToBytes(counter, 1) \o ToBytes(num_bytes, 4) \o input_data)
             rest == HashDfLoop(h.tbl, input_data, num_bytes, counter + 1, num_blocks)
         IN  [d |-> h.d \o rest.d, tbl |-> rest.tbl]

\* _hash_df(input_data, num_bytes)
hash_df(tbl, input_data, num_bytes) ==
    LET num_blocks == (num_bytes + hash_len - 1) \div hash_len
        r == HashDfLoop(tbl, input_data, num_bytes, 1, num_blocks)
    IN  [d |-> Take(r.d, num_bytes), tbl |-> r.tbl]

\* drbg_instantiate, with the entropy and the nonce drawn already when the
\* caller gave None: [st, tbl]
drbg_instantiate(tbl, entropy, nonce, personalization) ==
    LET seed == hash_df(tbl, entropy \o nonce \o personalization, SEED_LEN)
        C    == hash_df(seed.tbl, <<Lit(0)>> \o seed.d, SEED_LEN)
    IN  [st |-> [V |-> seed.d, C |-> C.d, reseed_counter |-> 1], tbl |-> C.tbl]

\* drbg_reseed, with the entropy drawn already when the caller gave None
drbg_reseed(c, entropy) ==
    LET seed == hash_df(c.tbl, <<Lit(1)>> \o c.st.V \o entropy, SEED_LEN)
        C    == hash_df(seed.tbl, <<Lit(0)>> \o seed.d, SEED_LEN)
    IN  [st |-> [V |-> seed.d, C |-> C.d, reseed_counter |-> 1], tbl |-> C.tbl]

RECURSIVE HashgenLoop(_, _, _, _)
\* the for loop of drbg_generate, k iterations left: [W, tbl]; data has
\* the length of V all along, so that (int_data + 1) % 2^(8 len(data)) fits
\* the len(V) bytes it is written to
HashgenLoop(tbl, data, W, k) ==
    IF k <= 0 THEN [W |-> W, tbl |-> tbl]
    ELSE LET h    == Sha256(tbl, data)
             next == AddMod(h.tbl, <<data>>, 1, Len(data))
         IN  HashgenLoop(next.tbl, next.d, W \o h.d, k - 1)

\* drbg_generate(state, num_bytes): [st, tbl, ret]
drbg_generate(c, num_bytes) ==
    LET m == (num_bytes + hash_len - 1) \div hash_len
        g == HashgenLoop(c.tbl, c.st.V, <<>>, m)
        output == Take(g.W, num_bytes)
        H == Sha256(g.tbl, <<Lit(3)>> \o c.st.V)
        new_v == AddMod(H.tbl, <<c.st.V, H.d, c.st.C>>, c.st.reseed_counter, SEED_LEN)
    IN  [st |-> [c.st EXCEPT !.V = new_v.d,
                             !.reseed_counter = c.st.reseed_counter + 1],
         tbl |-> new_v.tbl, ret |-> Ret("bytes", output)]

\* os.urandom(n): one of the strings the system may return
Urandom(n) == {Rep(b, n) : b \in {170, 187}}

\* the reseed interval of the specification for this variant (10000 there;
\* hash_drbg.py has none)
HashInterval == 2
\* calls made on the state
MaxHashCalls == 3

HashEntropies == {Rep(65, SEED_LEN)}
HashNonces == {Rep(66, 28)}
HashNumBytes == {0, 16, hash_len + 1}

InitHash ==
    /\ \E e \in HashEntropies \cup Urandom(SEED_LEN),
          n \in HashNonces \cup Urandom(SEED_LEN \div 2) :
         LET c == drbg_instantiate(<<>>, e, n, <<>>)
         IN  hst = c.st /\ oracle = c.tbl
    /\ hlog = <<>>

HashEntry(op, num, c) == [op |-> op, num |-> num, pre |-> hst, post |-> c.st, ret |-> c.ret]

HashGenerate ==
    /\ Len(hlog) < MaxHashCalls
    /\ \E n \in HashNumBytes :
         LET c == drbg_generate([st |-> hst, tbl |-> oracle], n)
         IN  /\ hst' = c.st
             /\ oracle' = c.tbl
             /\ hlog' = Append(hlog, HashEntry("generate", n, c))
    /\ UNCHANGED otherHash

HashReseed ==
    /\ Len(hlog) < MaxHashCalls
    /\ \E e \in HashEntropies \cup Urandom(SEED_LEN) :
         LET c == drbg_reseed([st |-> hst, tbl |-> oracle], e)
         IN  /\ hst' = c.st
             /\ oracle' = c.tbl
             /\ hlog' = Append(hlog, [op |-> "reseed", num |-> 0, pre |-> hst,
                                      post |-> c.st, ret |-> NoRet])
    /\ UNCHANGED otherHash

NextHash == HashGenerate \/ HashReseed

IdleHash == hst = <<>> /\ hlog = <<>>

---------------------------------------------------------------------------
(* An HMAC_DRBG object and a Hash_DRBG state side by side: the calls made  *)
(* on the one and on the other interleave, the digests are the library's   *)

\* calls made on the two together
MaxBothCalls == 2

InitBoth ==
    /\ \E e \in Entropies, nc \in Nonces, p \in Personalizations,
          r \in 1..MaxInterval, he \in HashEntropies \cup Urandom(SEED_LEN),
          hn \in HashNonces :
         /\ drbg = <<HMAC_instantiate(<<>>, e, nc, p, r).st>>
         /\ hst = drbg_instantiate(HMAC_instantiate(<<>>, e, nc, p, r).tbl,
                                   he, hn, <<>>).st
         /\ oracle = drbg_instantiate(HMAC_instantiate(<<>>, e, nc, p, r).tbl,
                                      he, hn, <<>>).tbl
    /\ byteval = <<>>
    /\ out = <<NoRet>>
    /\ log = <<>>
    /\ hlog = <<>>

\* the calls still to come
BothRuns == Len(log) + Len(hlog) < MaxBothCalls

BothGenerate == BothRuns /\ Generate
BothReseed == BothRuns /\ Reseed
BothHashGenerate == BothRuns /\ HashGenerate
BothHashReseed == BothRuns /\ HashReseed

NextBoth == BothGenerate \/ BothReseed \/ BothHashGenerate \/ BothHashReseed

---------------------------------------------------------------------------
(* LCG: GENERATORS/PRNG_non-cryptographics/LCG.py, from line 48 on *)

\* x % m of Python for m # 0: the result has the sign of m
PyMod(x, m) == IF m > 0 THEN x % m ELSE 0 - ((0 - x) % (0 - m))

\* what an LCG function gives back; err: x % 0 raised ZeroDivisionError
LcgRet(err, init, values, state) ==
    [err |-> err, init |-> init, values |-> values, state |-> state]
LcgRaised == LcgRet(TRUE, 0, <<>>, 0)

\* lcg_next without the reduction modulo m
lcg_next_noMod(state, a, c, m) ==
    IF m = 0 THEN LcgRaised
    ELSE LcgRet(FALSE, state, <<a * state + c>>, a * state + c)

\* lcg_next that also reads a counter shared by all the callers
lcg_next_global(state, a, c, m) ==
    IF m = 0 THEN LcgRaised
    ELSE LET new_state == PyMod(a * state + c + ncalls, m)
         IN  LcgRet(FALSE, state, <<new_state>>, new_state)

\* lcg_next(state, a, c, m): values = <<the value returned>>
lcg_next(state, a, c, m) ==
    IF m = 0 THEN LcgRaised
    ELSE LET new_state == PyMod(a * state + c, m)
         IN  LcgRet(FALSE, state, <<new_state>>, new_state)

RECURSIVE LcgLoop(_, _, _, _, _, _)
\* the loop of lcg_generate_sequence, n iterations left
LcgLoop(state, values, n, a, c, m) ==
    IF n <= 0 THEN <<values, state>>
    ELSE LET s1 == PyMod(a * state + c, m)
         IN  LcgLoop(s1, Append(values, s1), n - 1, a, c, m)

\* lcg_generate_sequence(n, seed, a, c, m); init is seed % m
lcg_generate_sequence(n, seed, a, c, m) ==
    IF m = 0 THEN LcgRaised
    ELSE LET r == LcgLoop(PyMod(seed, m), <<>>, n, a, c, m)
         IN  LcgRet(FALSE, PyMod(seed, m), r[1], r[2])

RECURSIVE LcgByteLoop_secondByte(_, _, _, _, _, _)
\* a loop that stores bits 8..15 of each state
LcgByteLoop_secondByte(state, result, n, a, c, m) ==
    IF n <= 0 THEN <<result, state>>
    ELSE LET s1 == PyMod(a * state + c, m)
         IN  LcgByteLoop_secondByte(s1, Append(result, (s1 \div 256) % 256),
                                    n - 1, a, c, m)

RECURSIVE LcgByteLoop(_, _, _, _, _, _)
\* the loop of lcg_generate_bytes, n iterations left; state & 0xFF is the
\* residue modulo 256, for a negative state too
LcgByteLoop(state, result, n, a, c, m) ==
    IF n <= 0 THEN <<result, state>>
    ELSE LET s1 == PyMod(a * state + c, m)
         IN  LcgByteLoop(s1, Append(result, s1 % 256), n - 1, a, c, m)

\* lcg_generate_bytes(n, seed, a, c, m); bytearray(n) raises ValueError
\* for n < 0, after seed % m
lcg_generate_bytes(n, seed, a, c, m) ==
    IF m = 0 \/ n < 0 THEN LcgRaised
    ELSE LET r == LcgByteLoop(PyMod(seed, m), <<>>, n, a, c, m)
         IN  LcgRet(FALSE, PyMod(seed, m), r[1], r[2])

\* lcg_next calls chained by a run
MaxSteps == 3
\* the largest n asked of lcg_generate_bytes and lcg_generate_sequence
MaxN == 3

LcgSeeds == {-3, 0, 5, 42, 1000}
LcgParams ==
    {<<5, 3, 8>>, <<21, 7, 1000>>, <<1, 0, 1>>, <<3, -5, 7>>, <<-2, 1, 9>>,
     <<5, 3, 0>>, <<5, 3, -7>>}
Runs == {1, 2}
\* the n asked of lcg_generate_bytes and lcg_generate_sequence
LcgCounts == -1..MaxN
NoLcgRet == [kind |-> "none", n |-> 0, ret |-> LcgRet(FALSE, 0, <<>>, 0)]

InitLCG ==
    /\ \E seed \in LcgSeeds, p \in LcgParams :
         lcgp = [seed |-> seed, a |-> p[1], c |-> p[2], m |-> p[3]]
    \* a run chains lcg_next from the seed itself (state = seed, line 120)
    /\ chain = [r \in Runs |-> [state |-> lcgp.seed, values |-> <<>>]]
    /\ res = [r \in Runs |-> NoLcgRet]
    /\ ncalls = 0

\* val, state = lcg_next(state, a, c, m) in run r
LcgNext(r) ==
    /\ Len(chain[r].values) < MaxSteps
    /\ LET o == lcg_next(chain[r].state, lcgp.a, lcgp.c, lcgp.m)
       IN  /\ ~o.err
           /\ chain' = [chain EXCEPT ![r] = [state |-> o.state,
                                             values |-> chain[r].values \o o.values]]
    /\ ncalls' = ncalls + 1
    /\ UNCHANGED <<lcgp, res>>
    /\ UNCHANGED otherLCG

LcgGenerateSequence(r) ==
    /\ res[r].kind = "none"
    /\ \E n \in LcgCounts :
         res' = [res EXCEPT ![r] =
                   [kind |-> "sequence", n |-> n,
                    ret |-> lcg_generate_sequence(n, lcgp.seed, lcgp.a, lcgp.c, lcgp.m)]]
    /\ ncalls' = ncalls + 1
    /\ UNCHANGED <<lcgp, chain>>
    /\ UNCHANGED otherLCG

LcgGenerateBytes(r) ==
    /\ res[r].kind = "none"
    /\ \E n \in LcgCounts :
         res' = [res EXCEPT ![r] =
                   [kind |-> "bytes", n |-> n,
                    ret |-> lcg_generate_bytes(n, lcgp.seed, lcgp.a, lcgp.c, lcgp.m)]]
    /\ ncalls' = ncalls + 1
    /\ UNCHANGED <<lcgp, chain>>
    /\ UNCHANGED otherLCG

NextLCG ==
    \E r \in Runs : LcgNext(r) \/ LcgGenerateSequence(r) \/ LcgGenerateBytes(r)

IdleLCG == lcgp = <<>> /\ chain = <<>> /\ res = <<>> /\ ncalls = 0

---------------------------------------------------------------------------
(* the two other LCGs of the repository: lcg of GENERATORS/PRNG_non-       *)
(* cryptographics/LCG.py, which returns a list, and the generator lcg of   *)
(* PRNG_non-cryptographics/LCG.py                                          *)

RECURSIVE LcgListLoop_appendFirst(_, _, _, _, _, _)
\* a loop that appends x before it computes the next one
LcgListLoop_appendFirst(x, results, n, a, c, m) ==
    IF n <= 0 THEN LcgRet(FALSE, 0, results, x)
    ELSE IF m = 0 THEN LcgRaised
    ELSE LcgListLoop_appendFirst(PyMod(a * x + c, m), Append(results, x),
                                 n - 1, a, c, m)

RECURSIVE LcgListLoop(_, _, _, _, _, _)
\* for _ in range(n): x = (a * x + c) % m; results.append(x)
LcgListLoop(x, results, n, a, c, m) ==
    IF n <= 0 THEN LcgRet(FALSE, 0, results, x)
    ELSE IF m = 0 THEN LcgRaised
    ELSE LcgListLoop(PyMod(a * x + c, m),
                     Append(results, PyMod(a * x + c, m)), n - 1, a, c, m)

\* lcg(seed, a, c, m, n) with x = seed: nothing is reduced before the loop,
\* and m = 0 raises only if the loop runs
lcg(seed, a, c, m, n) ==
    [LcgListLoop(seed, <<>>, n, a, c, m) EXCEPT !.init = seed]

\* next(gen) on the generator lcg(seed, a, c, mod): one turn of while True
lcg_yield(seed, a, c, mod) ==
    IF mod = 0 THEN LcgRaised
    ELSE LcgRet(FALSE, seed, <<PyMod(a * seed + c, mod)>>,
                PyMod(a * seed + c, mod))

\* gen = lcg(seed, a, c, mod): no statement of the body has run
NewGenerator(seed) == [seed |-> seed, values |-> <<>>]

InitSame ==
    /\ InitLCG
    /\ lg = [list |-> NoLcgRet, gen |-> NewGenerator(lcgp.seed)]

\* results = lcg(seed, a, c, m, n)
LcgList ==
    /\ lg.list.kind = "none"
    /\ \E n \in LcgCounts :
         lg' = [lg EXCEPT !.list =
                  [kind |-> "list", n |-> n,
                   ret |-> lcg(lcgp.seed, lcgp.a, lcgp.c, lcgp.m, n)]]
    /\ UNCHANGED lvars
    /\ UNCHANGED otherSame

\* next(gen)
LcgYield ==
    /\ Len(lg.gen.values) < MaxSteps
    /\ LET o == lcg_yield(lg.gen.seed, lcgp.a, lcgp.c, lcgp.m)
       IN  /\ ~o.err
           /\ lg' = [lg EXCEPT !.gen = [seed |-> o.state,
                                        values |-> lg.gen.values \o o.values]]
    /\ UNCHANGED lvars
    /\ UNCHANGED otherSame

\* one caller uses the four implementations on the same seed and parameters
NextSame == LcgNext(1) \/ LcgGenerateSequence(1) \/ LcgList \/ LcgYield

---------------------------------------------------------------------------
(* Blum-Blum-Shub: GENERATORS/CSPRNG/BBS.py                                *)

Abs(x) == IF x < 0 THEN 0 - x ELSE x

RECURSIVE GcdNat(_, _)
GcdNat(a, b) == IF b = 0 THEN a ELSE GcdNat(b, a % b)

\* math.gcd: the greatest common divisor of |a| and |b|, gcd(0, 0) = 0
gcd(a, b) == GcdNat(Abs(a), Abs(b))

\* the seed argument: <<>> is seed=None, <<x>> the integer x
NoSeed == <<>>
\* no state dict
NoBbs == <<>>

\* what bbs_init gives back: err names the exception raised, "" for none
BbsState(seed, pq, p, q) ==
    [err |-> "", st |-> [state |-> seed, M |-> pq, p |-> p, q |-> q]]
BbsRaised(err) == [err |-> err, st |-> NoBbs]

\* the seeds the loop of lines 13-15 can end with: randint(2, M - 1) drawn
\* again until it is coprime with M
DrawnSeeds(pq) == {s \in 2..(pq - 1) : gcd(s, pq) = 1}

\* bbs_init once M = p * q is computed, pq here; randint raises ValueError on an
\* empty range
InitWith(seed, pq, p, q) ==
    IF seed = NoSeed
    THEN IF pq - 1 < 2 THEN {BbsRaised("ValueError")}
         ELSE {BbsState(s, pq, p, q) : s \in DrawnSeeds(pq)}
    ELSE IF gcd(seed[1], pq) # 1 THEN {BbsRaised("ValueError")}
         ELSE {BbsState(seed[1], pq, p, q)}

\* bbs_init that tests the seed against p only
bbs_init_onlyP(seed, p, q) ==
    IF seed # NoSeed /\ gcd(seed[1], p) = 1
    THEN {BbsState(seed[1], p * q, p, q)}
    ELSE InitWith(seed, p * q, p, q)

\* bbs_init that takes the seed as it is given
bbs_init_noCheck(seed, p, q) ==
    IF seed # NoSeed
    THEN {BbsState(seed[1], p * q, p, q)}
    ELSE InitWith(seed, p * q, p, q)

\* bbs_init(seed, p, q): the possible outcomes
bbs_init(seed, p, q) == InitWith(seed, p * q, p, q)

\* bbs_next_bit once the new state is computed
NextBit(bbs_state, x) ==
    [err |-> "", bit |-> x % 2, st |-> [bbs_state EXCEPT !.state = x]]

\* bbs_next_bit(bbs_state): % 0 raises before the state is assigned
bbs_next_bit(bbs_state) ==
    IF bbs_state.M = 0
    THEN [err |-> "ZeroDivisionError", bit |-> -1, st |-> bbs_state]
    ELSE NextBit(bbs_state, PyMod(bbs_state.state * bbs_state.state, bbs_state.M))

\* bits asked of one state
MaxBits == 3

\* the p and q a caller gives: Blum primes, a prime that is 1 modulo 4,
\* a composite, 1 and 0
BbsFactors == {0, 1, 3, 4, 5, 7, 11}
BbsSeeds == {NoSeed} \cup {<<x>> : x \in {-2, 0, 1, 2, 3, 6, 7, 10, 21}}

InitBBS == bbs = NoBbs /\ bcall = <<>> /\ bbits = <<>>

\* bbs_state = bbs_init(seed, p, q)
BbsInit ==
    /\ bcall = <<>>
    /\ \E seed \in BbsSeeds, p \in BbsFactors, q \in BbsFactors :
         \E o \in bbs_init(seed, p, q) :
             /\ bcall' = [seed |-> seed, p |-> p, q |-> q, err |-> o.err]
             /\ bbs' = o.st
    /\ bbits' = <<>>
    /\ UNCHANGED otherBBS

\* bit, bbs_state = bbs_next_bit(bbs_state); -1 in bbits: the call raised
BbsNextBit ==
    /\ bbs # NoBbs
    /\ Len(bbits) < MaxBits
    /\ \A i \in 1..Len(bbits) : bbits[i] >= 0
    /\ bbs' = bbs_next_bit(bbs).st
    /\ bbits' = Append(bbits, bbs_next_bit(bbs).bit)
    /\ UNCHANGED bcall
    /\ UNCHANGED otherBBS

NextBBS == BbsInit \/ BbsNextBit

---------------------------------------------------------------------------
(* XOR combiner (xor_nrbg.py) *)

RECURSIVE OrInt(_, _)
\* a | b of two non-negative integers
OrInt(a, b) ==
    IF a = 0 THEN b
    ELSE IF b = 0 THEN a
    ELSE (IF a % 2 = 1 \/ b % 2 = 1 THEN 1 ELSE 0) + 2 * OrInt(a \div 2, b \div 2)

RECURSIVE XorInt(_, _)
\* a ^ b of two non-negative integers
XorInt(a, b) ==
    IF a = 0 THEN b
    ELSE IF b = 0 THEN a
    ELSE ((a + b) % 2) + 2 * XorInt(a \div 2, b \div 2)

\* what a call of the combiner yields: the bytes returned, or the exception
XorRet(bytes) == [err |-> "", bytes |-> bytes]
XorRaised(err) == [err |-> err, bytes |-> <<>>]

\* bytearray(n)
ZeroBytes(n) == [i \in 1..n |-> 0]

\* for i in range(n): result[i] ^= ba[i], with ba at least n bytes long
XorInto(result, ba) == [i \in 1..Len(result) |-> XorInt(result[i], ba[i])]

RECURSIVE XorLoop(_, _, _)
\* for ba in byte_arrays, from the k-th array on; ba[i] raises IndexError
\* as soon as i reaches the end of an array shorter than n
XorLoop(result, byte_arrays, k) ==
    IF k > Len(byte_arrays) THEN XorRet(result)
    ELSE IF Len(byte_arrays[k]) < Len(result) THEN XorRaised("IndexError")
    ELSE XorLoop(XorInto(result, byte_arrays[k]), byte_arrays, k + 1)

\* the combiner that starts from the first array and then folds all of them
xor_bytes_list_firstTwice(byte_arrays) ==
    IF byte_arrays = <<>> THEN XorRaised("IndexError")
    ELSE XorLoop(byte_arrays[1], byte_arrays, 1)

\* xor_bytes_list(byte_arrays); byte_arrays[0] of an empty list raises
xor_bytes_list(byte_arrays) ==
    IF byte_arrays = <<>> THEN XorRaised("IndexError")
    ELSE XorLoop(ZeroBytes(Len(byte_arrays[1])), byte_arrays, 1)

\* [o[:n] for o in generator_outputs]
Truncated(n, generator_outputs) ==
    [k \in 1..Len(generator_outputs) |-> Take(generator_outputs[k], n)]

\* xor_nrbg_generate_custom(n, generator_outputs)
xor_nrbg_generate_custom(n, generator_outputs) ==
    xor_bytes_list(Truncated(n, generator_outputs))

\* the longest list of byte strings handed to the combiner
MaxInputs == 3

\* the byte strings the callers hand over
XorStrings ==
    {<<>>, <<90>>, <<255>>, <<90, 255>>, <<255, 90>>, <<165, 60>>, <<1, 2, 3>>}

XorLists == UNION {[1..k -> XorStrings] : k \in 0..MaxInputs}

\* the byte counts asked of xor_nrbg_generate_custom
XorCounts == {-1, 0, 1, 2, 3}

InitXor == xin = <<>> /\ xout = <<>>

\* xout = xor_bytes_list(byte_arrays)
XorBytesList ==
    /\ xin = <<>>
    /\ \E byte_arrays \in XorLists :
         /\ xin' = [fn |-> "xor_bytes_list", n |-> <<>>, given |-> byte_arrays,
                    combined |-> byte_arrays]
         /\ xout' = xor_bytes_list(byte_arrays)
    /\ UNCHANGED otherXor

\* xout = xor_nrbg_generate_custom(n, generator_outputs); combined is the
\* list the combiner receives
XorCustom ==
    /\ xin = <<>>
    /\ \E n \in XorCounts, generator_outputs \in XorLists :
         /\ xin' = [fn |-> "xor_nrbg_generate_custom", n |-> <<n>>,
                    given |-> generator_outputs,
                    combined |-> Truncated(n, generator_outputs)]
         /\ xout' = xor_nrbg_generate_custom(n, generator_outputs)
    /\ UNCHANGED otherXor

NextXor == XorBytesList \/ XorCustom

---------------------------------------------------------------------------
(* MT states as objects: the dict a state is and the list it holds *)

\* the two states of the demonstration: the victim's and the attacker's
Roles == {"victim", "clone"}

\* the dict the variable of that name refers to (0: none yet)
RefOf(role) == IF role = "victim" THEN vic ELSE clo

\* state["mt"] and state["index"] of the dict d
Load(d) == [mt |-> lists[dicts[d].mt], index |-> dicts[d].index]

\* an allocation that hands out the object allocated last, if there is one
SameRef(heap) == IF heap = <<>> THEN 1 ELSE Len(heap)

\* [0] * N and {"mt": mt, "index": N} allocate an object no one else holds
NewRef(heap) == Len(heap) + 1

\* the heap once obj is stored at ref
Put(heap, ref, obj) ==
    IF ref > Len(heap) THEN Append(heap, obj) ELSE [heap EXCEPT ![ref] = obj]

\* what clone_mt yields: the state it returns, or the exception
CloneRet(st) == [err |-> "", st |-> st]
CloneRaised(err) == [err |-> err, st |-> NoMt]

\* clone_mt that overwrites as many words as it was given
CloneOutcome_partial(outputs, asserts) ==
    CloneRet([mt |-> [i \in 0..(N - 1) |->
                        IF i < Len(outputs) THEN untemper(outputs[i + 1]) ELSE {}],
              index |-> N])

\* clone_mt(outputs) in either build: the assert refuses any number of
\* outputs but N; with asserts stripped (python -O) outputs[i] raises
\* IndexError when there are fewer than N, and the first N are used
\* when there are more
CloneOutcome(outputs, asserts) ==
    IF asserts /\ Len(outputs) # N THEN CloneRaised("AssertionError")
    ELSE IF Len(outputs) < N THEN CloneRaised("IndexError")
    ELSE CloneRet(clone_mt(SubSeq(outputs, 1, N)))

\* calls made on the two states after the clone is built, at most
MaxAfter == 2

\* the calls made since the clone was built
After ==
    (hist["victim"].nex - N) + hist["clone"].nex
      + hist["victim"].ndt + hist["clone"].ndt

\* per state: mt_extract calls, twists seen in them, direct mt_twist calls
NoHist == [r \in Roles |-> [nex |-> 0, ntw |-> 0, ndt |-> 0]]

\* the call made last: the state it was made on, the cursor when it was
\* entered, whether the word array changed, the exception, the outputs given
Made(op, role, idx0, tw, err, given) ==
    [op |-> op, on |-> role, idx0 |-> idx0, tw |-> tw, err |-> err, given |-> given]

InitObj ==
    /\ \E seed \in Seeds :
         /\ lists = <<mt_init(Bits(seed, 0)).mt>>
         /\ dicts = <<[mt |-> NewRef(<<>>), index |-> mt_init(Bits(seed, 0)).index]>>
    /\ vic = NewRef(<<>>)
    /\ clo = 0
    /\ seen = <<>>
    /\ hist = NoHist
    /\ last = Made("mt_init", "victim", 0, FALSE, "", 0)

\* the effect of value, state = mt_extract(state) on the dict d and its
\* list, r = the pair computed from old = the state as the call found it
Extracted(role, d, old, r) ==
    /\ lists' = [lists EXCEPT ![dicts[d].mt] = r[2].mt]
    /\ dicts' = [dicts EXCEPT ![d] = [mt |-> dicts[d].mt, index |-> r[2].index]]
    /\ seen' = IF role = "victim" /\ clo = 0 THEN Append(seen, r[1]) ELSE seen
    /\ hist' = [hist EXCEPT ![role] =
                  [nex |-> @.nex + 1,
                   ntw |-> @.ntw + (IF r[2].mt # old.mt THEN 1 ELSE 0),
                   ndt |-> @.ndt]]
    /\ last' = Made("mt_extract", role, old.index, r[2].mt # old.mt, "", 0)

\* mt_extract on the victim (the attacker collects the value until the
\* clone is built) or on the clone
MtExtract ==
    /\ \E role \in Roles :
         /\ RefOf(role) # 0
         /\ IF clo = 0 THEN Len(seen) < N ELSE After < MaxAfter
         /\ Extracted(role, RefOf(role), Load(RefOf(role)),
                      mt_extract(Load(RefOf(role))))
    /\ UNCHANGED <<vic, clo>>
    /\ UNCHANGED otherObj

\* the effect of mt_twist(state) on the dict d and its list
Twisted(role, d, old, st) ==
    /\ lists' = [lists EXCEPT ![dicts[d].mt] = st.mt]
    /\ dicts' = [dicts EXCEPT ![d] = [mt |-> dicts[d].mt, index |-> st.index]]
    /\ hist' = [hist EXCEPT ![role] =
                  [nex |-> @.nex, ntw |-> @.ntw, ndt |-> @.ndt + 1]]
    /\ last' = Made("mt_twist", role, old.index, st.mt # old.mt, "", 0)

\* a direct mt_twist(state) on either state once the clone is built
MtTwist ==
    /\ clo # 0
    /\ After < MaxAfter
    /\ \E role \in Roles :
         Twisted(role, RefOf(role), Load(RefOf(role)), mt_twist(Load(RefOf(role))))
    /\ UNCHANGED <<vic, clo, seen>>
    /\ UNCHANGED otherObj

\* the effect of cloned = clone_mt(seen): o is what the call yields; the
\* list and the dict of mt_init(seed=0) are new objects
Cloned(o) ==
    IF o.err # ""
    THEN /\ last' = Made("clone_mt", "clone", 0, FALSE, o.err, Len(seen))
         /\ UNCHANGED <<lists, dicts, clo>>
    ELSE /\ lists' = Put(lists, NewRef(lists), o.st.mt)
         /\ dicts' = Put(dicts, NewRef(dicts),
                         [mt |-> NewRef(lists), index |-> o.st.index])
         /\ clo' = NewRef(dicts)
         /\ last' = Made("clone_mt", "clone", 0, FALSE, "", Len(seen))

\* the attacker calls clone_mt on what was collected so far
CloneMt ==
    /\ clo = 0
    /\ \E asserts \in BOOLEAN : Cloned(CloneOutcome(seen, asserts))
    /\ UNCHANGED <<vic, seen, hist>>
    /\ UNCHANGED otherObj

NextObj == MtExtract \/ MtTwist \/ CloneMt

---------------------------------------------------------------------------
(* Two threads that call mt_extract on one MT state, with no lock: a      *)
(* thread runs one step of the function at a time                          *)

Threads == {1, 2}

\* mt_extract calls made by each thread
MaxExtracts == 1

\* the serial extractions made on the state before the threads start
ThreadStarts == {0, 1, N - 1}

\* a cursor that stays where it is
NextCursor_stuck(index) == index

\* a cursor that moves on by two words
NextCursor_skip(index) == index + 2

\* state["index"] += 1
NextCursor(index) == index + 1

\* the other thread
Other(t) == CHOOSE u \in Threads : u # t

\* the thread t at pc, holding the word y
At(t, pc, y) == [th EXCEPT ![t] = [@ EXCEPT !.pc = pc, !.y = y]]

InitThr ==
    /\ \E seed \in Seeds, k \in ThreadStarts :
         /\ sh = ObserveLoop(mt_init(Bits(seed, 0)), <<>>, k)[1]
         /\ tr = [reads |-> {}, twists |-> 0, first |-> IF k = 0 THEN N ELSE k,
                  overlap |-> FALSE, dup |-> FALSE, twice |-> FALSE,
                  past |-> FALSE, start |-> sh, order |-> <<>>]
    /\ th = [t \in Threads |-> [pc |-> "idle", y |-> {}, calls |-> 0, rets |-> <<>>]]

\* the call begins with the cursor test: if state["index"] >= N
ThrTest ==
    /\ \E t \in Threads :
         /\ th[t].pc = "idle"
         /\ th[t].calls < MaxExtracts
         /\ th' = At(t, IF sh.index >= N THEN "twist" ELSE "read", {})
         /\ tr' = [tr EXCEPT !.overlap = @ \/ th[Other(t)].pc # "idle"]
    /\ UNCHANGED sh
    /\ UNCHANGED otherThr

\* mt_twist(state); twice: the state was twisted with words still unread
ThrTwist ==
    /\ \E t \in Threads :
         /\ th[t].pc = "twist"
         /\ th' = At(t, "read", {})
    /\ sh' = mt_twist(sh)
    /\ tr' = [tr EXCEPT !.twists = @ + 1, !.twice = @ \/ sh.index < N]
    /\ UNCHANGED otherThr

\* y = state["mt"][state["index"]]; past: the cursor is beyond the last
\* word and the read raises IndexError
ThrRead ==
    /\ \E t \in Threads :
         /\ th[t].pc = "read"
         /\ IF sh.index >= N
            THEN /\ th' = [th EXCEPT ![t] = [pc |-> "idle", y |-> {},
                                             calls |-> @.calls + 1,
                                             rets |-> Append(@.rets, <<>>)]]
                 /\ tr' = [tr EXCEPT !.past = TRUE, !.order = Append(@, <<>>)]
            ELSE /\ th' = At(t, "inc", sh.mt[sh.index])
                 /\ tr' = [tr EXCEPT
                             !.reads = @ \cup {<<tr.twists, sh.index>>},
                             !.dup = @ \/ <<tr.twists, sh.index>> \in tr.reads]
    /\ UNCHANGED sh
    /\ UNCHANGED otherThr

\* y = temper(y); state["index"] += 1; return y & MASK_32, state
ThrInc ==
    /\ \E t \in Threads :
         /\ th[t].pc = "inc"
         /\ th' = [th EXCEPT ![t] = [pc |-> "idle", y |-> {},
                                     calls |-> @.calls + 1,
                                     rets |-> Append(@.rets,
                                                <<And(temper(th[t].y), MASK_32)>>)]]
         /\ tr' = [tr EXCEPT !.order =
                             Append(@, <<And(temper(th[t].y), MASK_32)>>)]
    /\ sh' = [sh EXCEPT !.index = NextCursor(sh.index)]
    /\ UNCHANGED otherThr

NextThr == ThrTest \/ ThrTwist \/ ThrRead \/ ThrInc

\* the caller-side mutex: it is free when no call is under way
LockFree == \A t \in Threads : th[t].pc = "idle"

\* with lock: a thread enters mt_extract once it holds the mutex
LockedTest == LockFree /\ ThrTest

\* the steps of the call under way, and the start of the next call
NextLocked == LockedTest \/ ThrTwist \/ ThrRead \/ ThrInc

---------------------------------------------------------------------------
(* Blum-Blum-Shub: the functions that pack bits (bbs_generate_bits,       *)
(* bbs_generate_bitstring, bbs_generate_bytes, bbs_next_int32)             *)

\* what a packing function yields: the exception raised ("" for none), the
\* value returned or built so far, and the state it leaves
PackRet(err, val, st) == [err |-> err, val |-> val, st |-> st]

\* bits.append(bit), o = what bbs_next_bit gave on the state of r
BbsBitsStep(r, o) ==
    IF o.err # "" THEN PackRet(o.err, <<>>, NoBbs)
    ELSE PackRet("", Append(r.val, o.bit), o.st)

RECURSIVE BbsBitsLoop(_, _)
\* n iterations of the loop of bbs_generate_bits, from r
BbsBitsLoop(r, n) ==
    IF n <= 0 \/ r.err # "" THEN r
    ELSE IF n = 1 THEN BbsBitsStep(r, bbs_next_bit(r.st))
    ELSE BbsBitsLoop(BbsBitsLoop(r, n \div 2), n - n \div 2)

\* bbs_generate_bits(n, seed, p, q)
bbs_generate_bits(n, seed, p, q) ==
    {IF o.err # "" THEN PackRet(o.err, <<>>, NoBbs)
     ELSE BbsBitsLoop(PackRet("", <<>>, o.st), n) :
        o \in bbs_init(seed, p, q)}

\* str(b) of a bit
BitChar(b) == IF b = 0 THEN "0" ELSE "1"

\* bbs_generate_bitstring(n, seed, p, q): "".join(str(b) for b in bits)
bbs_generate_bitstring(n, seed, p, q) ==
    {IF r.err # "" THEN r
     ELSE PackRet("", [i \in 1..Len(r.val) |-> BitChar(r.val[i])], NoBbs) :
        r \in bbs_generate_bits(n, seed, p, q)}

\* a packing step that shifts after it has put the bit in
PackStep_shiftLast(r, o) ==
    IF o.err # "" THEN PackRet(o.err, {}, NoBbs)
    ELSE PackRet("", ShlWide(Or(r.val, Bits(o.bit, 0)), 1), o.st)

\* bit, bbs_state = bbs_next_bit(bbs_state); result = (result << 1) | bit,
\* o = what bbs_next_bit gave; result is a set of bit positions
PackStep(r, o) ==
    IF o.err # "" THEN PackRet(o.err, {}, NoBbs)
    ELSE PackRet("", Or(ShlWide(r.val, 1), Bits(o.bit, 0)), o.st)

RECURSIVE PackLoop(_, _)
\* k iterations of for _ in range(8) or for _ in range(32), from r
PackLoop(r, k) ==
    IF k <= 0 \/ r.err # "" THEN r
    ELSE IF k = 1 THEN PackStep(r, bbs_next_bit(r.st))
    ELSE PackLoop(PackLoop(r, k \div 2), k - k \div 2)

\* bbs_next_int32(bbs_state): val is the word returned
bbs_next_int32(bbs_state) == PackLoop(PackRet("", {}, bbs_state), 32)

RECURSIVE IntOf(_, _)
\* the integer whose 1 bits are those of w, from position i up
IntOf(w, i) ==
    IF w = {} THEN 0
    ELSE (IF i \in w THEN Pow2(i) ELSE 0) + IntOf(w \ {i}, i + 1)

\* result[i] = byte, b = what the inner loop gave
BbsBytesStep(r, b) ==
    IF b.err # "" THEN PackRet(b.err, <<>>, NoBbs)
    ELSE PackRet("", Append(r.val, IntOf(b.val, 0)), b.st)

RECURSIVE BbsBytesLoop(_, _)
\* n iterations of for i in range(n) of bbs_generate_bytes, from r
BbsBytesLoop(r, n) ==
    IF n <= 0 \/ r.err # "" THEN r
    ELSE BbsBytesLoop(BbsBytesStep(r, PackLoop(PackRet("", {}, r.st), 8)), n - 1)

\* bbs_generate_bytes(n, seed, p, q); bytearray(n) raises ValueError for
\* n < 0
bbs_generate_bytes(n, seed, p, q) ==
    {IF o.err # "" THEN PackRet(o.err, <<>>, NoBbs)
     ELSE IF n < 0 THEN PackRet("ValueError", <<>>, NoBbs)
     ELSE BbsBytesLoop(PackRet("", <<>>, o.st), n) :
        o \in bbs_init(seed, p, q)}

\* bytes asked of bbs_generate_bytes, at most
MaxPackBytes == 2
\* bbs_next_int32 calls chained on one state, at most
MaxInts == 1

\* the factors and the seeds of the callers; 3, 6 and 15 are refused with
\* 3 * 7
PackFactors == {<<3, 7>>, <<7, 11>>, <<11, 19>>}
PackSeeds == {2, 3, 5, 6, 10, 15}
PackBitCounts ==
    {3} \cup {8 * n : n \in 0..MaxPackBytes} \cup {32 * k : k \in 1..MaxInts}
NotCalled == <<>>

\* the state dict the integers are drawn from is that of bbs_init
InitPack ==
    \E seed \in PackSeeds, f \in PackFactors :
       \E o \in bbs_init(<<seed>>, f[1], f[2]) :
          pk = [seed |-> seed, p |-> f[1], q |-> f[2],
                nbits |-> 0, bits |-> NotCalled,
                nstr |-> 0, str |-> NotCalled,
                nbytes |-> 0, bytes |-> NotCalled,
                st |-> o.st, ints |-> <<>>]

\* bits, _ = bbs_generate_bits(n, seed, p, q)
PackBits ==
    /\ pk.bits = NotCalled
    /\ \E n \in PackBitCounts :
         \E r \in bbs_generate_bits(n, <<pk.seed>>, pk.p, pk.q) :
            pk' = [pk EXCEPT !.nbits = n, !.bits = <<r>>]
    /\ UNCHANGED otherPack

\* bbs_generate_bitstring(n, seed, p, q)
PackBitstring ==
    /\ pk.str = NotCalled
    /\ \E n \in PackBitCounts :
         \E r \in bbs_generate_bitstring(n, <<pk.seed>>, pk.p, pk.q) :
            pk' = [pk EXCEPT !.nstr = n, !.str = <<r>>]
    /\ UNCHANGED otherPack

\* bbs_generate_bytes(n, seed, p, q)
PackBytes ==
    /\ pk.bytes = NotCalled
    /\ \E n \in -1..MaxPackBytes :
         \E r \in bbs_generate_bytes(n, <<pk.seed>>, pk.p, pk.q) :
            pk' = [pk EXCEPT !.nbytes = n, !.bytes = <<r>>]
    /\ UNCHANGED otherPack

\* val, bbs_state = bbs_next_int32(bbs_state)
PackInt32 ==
    /\ pk.st # NoBbs
    /\ Len(pk.ints) < MaxInts
    /\ pk' = [pk EXCEPT !.st = bbs_next_int32(pk.st).st,
                        !.ints = Append(pk.ints, bbs_next_int32(pk.st).val)]
    /\ UNCHANGED otherPack

NextPack == PackBits \/ PackBitstring \/ PackBytes \/ PackInt32

---------------------------------------------------------------------------
(* Mersenne Twister: mt_generate_sequence and mt_generate_bytes of         *)
(* mersenne_twister.py, and the generator of MT19937.py                    *)

\* values.append(val) after val, state = mt_extract(state), r = the pair
\* mt_extract returned
SeqStep(acc, r) == [values |-> Append(acc.values, r[1]), state |-> r[2]]

RECURSIVE SeqLoop(_, _)
\* k iterations of the loop of mt_generate_sequence, from acc
SeqLoop(acc, k) ==
    IF k <= 0 THEN acc
    ELSE IF k = 1 THEN SeqStep(acc, mt_extract(acc.state))
    ELSE LET done == SeqLoop(acc, k \div 2)
         IN  \* the test evaluates the first half before the second starts
             IF done.state.index >= 0 THEN SeqLoop(done, k - k \div 2) ELSE done

\* mt_generate_sequence(n, seed): [values, state]
mt_generate_sequence(n, seed) ==
    SeqLoop([values |-> <<>>, state |-> mt_init(seed)], n)

\* the byte of w that starts at bit position lo
ByteAt(w, lo) == IntOf(Shr(w, lo) \cap (0..7), 0)

\* an encoding that puts the lowest byte first
to_bytes_little(val) ==
    <<ByteAt(val, 0), ByteAt(val, 8), ByteAt(val, 16), ByteAt(val, 24)>>

\* val.to_bytes(4, "big")
to_bytes(val) ==
    <<ByteAt(val, 24), ByteAt(val, 16), ByteAt(val, 8), ByteAt(val, 0)>>

\* result.extend(val.to_bytes(4, "big")) after val, state = mt_extract(state)
BytesStep(acc, r) == [values |-> acc.values \o to_bytes(r[1]), state |-> r[2]]

RECURSIVE BytesLoop(_, _, _)
\* while len(result) < n, at most k iterations from acc
BytesLoop(acc, k, n) ==
    IF k <= 0 THEN acc
    ELSE IF k = 1
         THEN IF Len(acc.values) < n THEN BytesStep(acc, mt_extract(acc.state))
              ELSE acc
    ELSE LET done == BytesLoop(acc, k \div 2, n)
         IN  IF done.state.index >= 0 THEN BytesLoop(done, k - k \div 2, n)
             ELSE done

\* mt_generate_bytes(n, seed): [values, state] with values = result[:n]; the
\* loop is left after n iterations at the latest
mt_generate_bytes(n, seed) ==
    LET r == BytesLoop([values |-> <<>>, state |-> mt_init(seed)], n, n)
    IN  [values |-> Take(r.values, n), state |-> r.state]

RECURSIVE MT19937_fill(_, _, _)
\* the loop of init of MT19937.py for i in lo..hi-1: state.append(...)
MT19937_fill(state, lo, hi) ==
    IF hi <= lo THEN state
    ELSE IF hi = lo + 1
         THEN Append(state,
                     And(Add(Mul(Word(\H6C07, \H8965),
                                 Xor(state[lo], Shr(state[lo], 30))),
                             Bits(lo, 0)),
                         Word(\HFFFF, \HFFFF)))
         ELSE LET done == MT19937_fill(state, lo, (lo + hi) \div 2)
              IN  IF Len(done) >= 0 THEN MT19937_fill(done, (lo + hi) \div 2, hi)
                  ELSE done

\* init(seed) of MT19937.py: the list state[0..N-1] is the sequence 1..N
MT19937_init(seed) == MT19937_fill(<<And(seed, Word(\HFFFF, \HFFFF))>>, 1, N)

\* one iteration of the loop of twist of MT19937.py, i from 0
MT19937_twistStep(state, i) ==
    LET bit_haut  == And(state[i + 1], Word(\H8000, 0))
        bits_bas  == And(state[((i + 1) % N) + 1], Word(\H7FFF, \HFFFF))
        x         == Or(bit_haut, bits_bas)
        x_shifted == IF 0 \in x THEN Xor(Shr(x, 1), Word(\H9908, \HB0DF))
                     ELSE Shr(x, 1)
    IN  [state EXCEPT ![i + 1] = Xor(state[((i + M) % N) + 1], x_shifted)]

RECURSIVE MT19937_twistLoop(_, _, _)
MT19937_twistLoop(state, lo, hi) ==
    IF hi <= lo THEN state
    ELSE IF hi = lo + 1 THEN MT19937_twistStep(state, lo)
    ELSE LET done == MT19937_twistLoop(state, lo, (lo + hi) \div 2)
         IN  IF Len(done) >= 0 THEN MT19937_twistLoop(done, (lo + hi) \div 2, hi)
             ELSE done

\* twist(state) of MT19937.py
MT19937_twist(state) == MT19937_twistLoop(state, 0, N)

\* temper(y) of MT19937.py
MT19937_temper(y) ==
    LET y1 == Xor(y, And(Shr(y, 11), Word(\HFFFF, \HFFFF)))
        y2 == Xor(y1, And(ShlWide(y1, 7), Word(\H9D2C, \H5680)))
        y3 == Xor(y2, And(ShlWide(y2, 15), Word(\HEFC6, 0)))
        y4 == Xor(y3, Shr(y3, 18))
    IN  And(y4, Word(\HFFFF, \HFFFF))

\* an iteration of generate that reads the word before it tests the cursor
GenStep_twistLate(g) ==
    LET y == MT19937_temper(g.state[(g.index % N) + 1])
        s == IF g.index >= N THEN MT19937_twist(g.state) ELSE g.state
    IN  [state |-> s, index |-> (IF g.index >= N THEN 0 ELSE g.index) + 1,
         results |-> Append(g.results, y)]

\* one iteration of the loop of generate
GenStep(g) ==
    LET s == IF g.index >= N THEN MT19937_twist(g.state) ELSE g.state
        index == IF g.index >= N THEN 0 ELSE g.index
    IN  [state |-> s, index |-> index + 1,
         results |-> Append(g.results, MT19937_temper(s[index + 1]))]

RECURSIVE GenLoop19937(_, _)
\* k iterations of the loop of generate, from g
GenLoop19937(g, k) ==
    IF k <= 0 THEN g
    ELSE IF k = 1 THEN GenStep(g)
    ELSE LET done == GenLoop19937(g, k \div 2)
         IN  IF done.index >= 0 THEN GenLoop19937(done, k - k \div 2) ELSE done

\* generate(seed, n) of MT19937.py: the list returned
generate(seed, n) ==
    GenLoop19937([state |-> MT19937_init(seed), index |-> N, results |-> <<>>],
                 n).results

\* words asked for in the small calls, at most
MaxWords == 2

\* seeds as sets of bit positions: 0, 42, 5489, 2^32 + 42 and 2^33 + 2^31
BulkSeeds ==
    {Bits(0, 0), Bits(42, 0), Bits(5489, 0), Bits(42, 0) \cup {32}, {31, 33}}
\* the n of the calls that return words: a few, and around the first twist
\* of a block that was read to its end
WordCounts == (-1..MaxWords) \cup {N, N + 1}

\* the byte counts that need n words
BytesFor(n) ==
    IF n <= 0 THEN {n}
    ELSE IF n <= MaxWords THEN (4 * n - 3)..(4 * n)
    ELSE {4 * n - 3}

\* a caller draws n words from a seed with each of the functions, and the
\* bytes of n words
InitBulk ==
    \E seed \in BulkSeeds, n \in WordCounts :
       mb = [seed |-> seed, n |-> n, seq |-> NotCalled, gen |-> NotCalled,
             nbytes |-> 0, bytes |-> NotCalled]

\* values, state = mt_generate_sequence(n, seed)
BulkSequence ==
    /\ mb.seq = NotCalled
    /\ mb' = [mb EXCEPT !.seq = <<mt_generate_sequence(mb.n, mb.seed)>>]
    /\ UNCHANGED otherBulk

\* results = generate(seed, n)
BulkGenerate ==
    /\ mb.seq # NotCalled
    /\ mb.gen = NotCalled
    /\ mb' = [mb EXCEPT !.gen = <<generate(mb.seed, mb.n)>>]
    /\ UNCHANGED otherBulk

\* data, state = mt_generate_bytes(n, seed)
BulkBytes ==
    /\ mb.gen # NotCalled
    /\ mb.bytes = NotCalled
    /\ \E n \in BytesFor(mb.n) :
         mb' = [mb EXCEPT !.nbytes = n, !.bytes = <<mt_generate_bytes(n, mb.seed)>>]
    /\ UNCHANGED otherBulk

NextBulk == BulkSequence \/ BulkBytes \/ BulkGenerate

---------------------------------------------------------------------------
(* Specifications *)

\* the engines a specification does not run
IdleBBS == bbs = <<>> /\ bcall = <<>> /\ bbits = <<>>
IdleXor == xin = <<>> /\ xout = <<>>
IdleObj ==
    /\ lists = <<>> /\ dicts = <<>> /\ vic = 0 /\ clo = 0
    /\ seen = <<>> /\ hist = <<>> /\ last = <<>>
IdleRand == rnd = <<>>
IdleThr == sh = <<>> /\ th = <<>> /\ tr = <<>>
IdleFn == pk = <<>> /\ mb = <<>> /\ lg = <<>>
IdleNew == IdleBBS /\ IdleXor /\ IdleObj /\ IdleRand /\ IdleThr /\ IdleFn

StartMT == InitMT /\ IdleTemper /\ IdleDRBG /\ IdleHash /\ IdleLCG /\ IdleNew
SpecMT == StartMT /\ [][NextMT]_vars

StartTemper == InitTemper /\ IdleMT /\ IdleDRBG /\ IdleHash /\ IdleLCG /\ IdleNew
SpecTemper == StartTemper /\ [][NextTemper]_vars

StartDRBG == InitDRBG /\ IdleMT /\ IdleTemper /\ IdleHash /\ IdleLCG /\ IdleNew
SpecDRBG == StartDRBG /\ [][NextDRBG]_vars

StartPair == InitPair /\ IdleMT /\ IdleTemper /\ IdleHash /\ IdleLCG /\ IdleNew
SpecPair == StartPair /\ [][NextDRBG]_vars

\* the Hash_DRBG functions share the digest table with no HMAC_DRBG object
StartHash ==
    /\ InitHash /\ IdleMT /\ IdleTemper /\ IdleLCG /\ IdleNew
    /\ drbg = <<>> /\ byteval = <<>> /\ out = <<>> /\ log = <<>>
SpecHash == StartHash /\ [][NextHash]_vars

StartLCG == InitLCG /\ IdleMT /\ IdleTemper /\ IdleDRBG /\ IdleHash /\ IdleNew
SpecLCG == StartLCG /\ [][NextLCG]_vars
StartSame ==
    /\ InitSame /\ IdleMT /\ IdleTemper /\ IdleDRBG /\ IdleHash /\ IdleBBS
    /\ IdleXor /\ IdleObj /\ IdleRand /\ IdleThr /\ pk = <<>> /\ mb = <<>>
SpecSame == StartSame /\ [][NextSame]_vars

StartBBS ==
    /\ InitBBS /\ IdleMT /\ IdleTemper /\ IdleDRBG /\ IdleHash /\ IdleLCG
    /\ IdleXor /\ IdleObj /\ IdleRand /\ IdleThr /\ IdleFn
SpecBBS == StartBBS /\ [][NextBBS]_vars

StartXor ==
    /\ InitXor /\ IdleMT /\ IdleTemper /\ IdleDRBG /\ IdleHash /\ IdleLCG
    /\ IdleBBS /\ IdleObj /\ IdleRand /\ IdleThr /\ IdleFn
SpecXor == StartXor /\ [][NextXor]_vars

StartObj ==
    /\ InitObj /\ IdleMT /\ IdleTemper /\ IdleDRBG /\ IdleHash /\ IdleLCG
    /\ IdleBBS /\ IdleXor /\ IdleRand /\ IdleThr /\ IdleFn
SpecObj == StartObj /\ [][NextObj]_vars

\* the other engines but the HMAC_DRBG object and the threads
IdleRest ==
    /\ IdleMT /\ IdleTemper /\ IdleHash /\ IdleLCG /\ IdleBBS /\ IdleXor /\ IdleObj

StartLengths ==
    /\ InitDRBG /\ IdleMT /\ IdleTemper /\ IdleHash /\ IdleLCG /\ IdleNew
SpecLengths == StartLengths /\ [][NextLengths]_vars

StartBoth ==
    /\ InitBoth /\ IdleMT /\ IdleTemper /\ IdleLCG /\ IdleNew
SpecBoth == StartBoth /\ [][NextBoth]_vars

StartRand == InitRand /\ IdleRest /\ IdleThr /\ IdleFn
SpecRand == StartRand /\ [][NextRand]_vars

StartThr == InitThr /\ IdleRest /\ IdleDRBG /\ IdleRand /\ IdleFn
SpecThr == StartThr /\ [][NextThr]_vars
SpecLocked == StartThr /\ [][NextLocked]_vars

StartPack ==
    /\ InitPack /\ IdleRest /\ IdleDRBG /\ IdleRand /\ IdleThr
    /\ mb = <<>> /\ lg = <<>>
SpecPack == StartPack /\ [][NextPack]_vars

StartBulk ==
    /\ InitBulk /\ IdleRest /\ IdleDRBG /\ IdleRand /\ IdleThr
    /\ pk = <<>> /\ lg = <<>>
SpecBulk == StartBulk /\ [][NextBulk]_vars

---------------------------------------------------------------------------
(* Claims *)

\* C1: whatever the cursor position of the victim when the observation
\* starts, the clone built from the next 624 outputs predicts each of the
\* next 1000 outputs of the victim.
C1_CloneMatches == mtpc = "done" => matches = n_predictions

\* reached: a clone taken from a cursor that is not on a block boundary
C1_Witness ==
    /\ mtpc = "done" /\ matches = n_predictions
    /\ nskip % N # 0 /\ victim.index # cloned.index

\* C2: untemper(temper(x)) = x for every 32-bit word x.
C2_UntemperTemper == tpc = "untempered" => tz = tx

C2_Witness == tpc = "untempered" /\ tz = tx /\ tx # {} /\ ty # tx

LogIdx == 1..Len(log)
IsGenerate(i) == log[i].call.op = "generate"
Succeeded(i)  == log[i].ret.kind = "bytes"
StateOf(st)   == <<st.Key, st.V, st.reseed_counter>>

\* C3: from a fresh object with reseed interval R and with nothing but
\* generate calls, the first R calls succeed and every later one is refused.
C3_ReseedInterval ==
    (\A i \in LogIdx : IsGenerate(i))
        => \A i \in LogIdx : Succeeded(i) <=> i <= drbg[1].reseed_interval

\* reached: R = 2, two generate calls that succeed and a third that is refused
C3_Witness ==
    /\ drbg[1].reseed_interval = 2 /\ Len(log) = 3
    /\ \A i \in LogIdx : IsGenerate(i)
    /\ Succeeded(1) /\ Succeeded(2) /\ ~Succeeded(3)

\* a call that reaches generate
ReachesGenerate(i) ==
    \/ log[i].call.op \in {"generate", "generate_bits"}
    \/ log[i].call.op = "randint" /\ log[i].call.lo <= log[i].call.hi

\* C4: a call that reaches generate on an object whose reseed_counter
\* exceeds reseed_interval returns None and leaves Key, V and
\* reseed_counter as they were.
C4_RefusedUnchanged ==
    \A i \in LogIdx :
        (ReachesGenerate(i) /\ log[i].pre.reseed_counter > log[i].pre.reseed_interval)
            => (log[i].ret = NoRet /\ StateOf(log[i].post) = StateOf(log[i].pre))

\* reached: a refused generate_bits with additional input and a refused
\* randint
C4_Witness ==
    /\ \E i \in LogIdx :
         /\ log[i].call.op = "generate_bits" /\ log[i].call.ai # None
         /\ log[i].ret = NoRet
    /\ \E i \in LogIdx :
         /\ log[i].call.op = "randint" /\ log[i].ret = NoRet
         /\ log[i].pre.reseed_counter > log[i].pre.reseed_interval

\* C5: reseed, in whatever state the object is, leaves reseed_counter = 1,
\* and a generate call that comes next succeeds.
C5_ReseedReady ==
    \A i \in LogIdx :
        log[i].call.op = "reseed"
            => /\ log[i].post.reseed_counter = 1
               /\ (i < Len(log) /\ IsGenerate(i + 1)) => Succeeded(i + 1)

\* reached: a reseed of an object that refused to generate, then a generate
C5_Witness ==
    \E i \in LogIdx :
        /\ log[i].call.op = "reseed" /\ i < Len(log)
        /\ log[i].pre.reseed_counter > log[i].pre.reseed_interval
        /\ IsGenerate(i + 1) /\ Succeeded(i + 1)

\* two generate calls in a row, of the same length, that both return bytes
GeneratePair(i) ==
    /\ i < Len(log) /\ IsGenerate(i) /\ IsGenerate(i + 1)
    /\ log[i].call.num = log[i + 1].call.num
    /\ Succeeded(i) /\ Succeeded(i + 1)

\* C7 as stated: two generate calls in a row of the same length return
\* different byte strings.
C7_Original ==
    \A i \in LogIdx : GeneratePair(i) => log[i].ret # log[i + 1].ret

\* C7 as amended: two generate calls in a row of the same length of at
\* least one digest (outlen bytes) return different byte strings, and the
\* first of them has changed Key and V.
C7_FullBlocksDiffer ==
    \A i \in LogIdx :
        (GeneratePair(i) /\ log[i].call.num >= outlen)
            => /\ log[i].ret # log[i + 1].ret
               /\ log[i].post.Key # log[i].pre.Key
               /\ log[i].post.V # log[i].pre.V

\* reached: two successful generate calls in a row of one length >= outlen
C7_Witness ==
    \E i \in LogIdx :
        /\ GeneratePair(i) /\ log[i].call.num >= outlen
        /\ log[i].ret # log[i + 1].ret

HashIdx == 1..Len(hlog)

\* C6: drbg_generate on a Hash_DRBG state whose reseed_counter exceeds the
\* reseed interval is refused and leaves V, C and reseed_counter as they
\* were.
C6_HashRefuses ==
    \A i \in HashIdx :
        (hlog[i].op = "generate" /\ hlog[i].pre.reseed_counter > HashInterval)
            => (hlog[i].ret = NoRet /\ hlog[i].post = hlog[i].pre)

\* reached: drbg_generate on a state whose reseed_counter is past the
\* interval returns bytes and moves V and reseed_counter
C6_Witness ==
    \E i \in HashIdx :
        /\ hlog[i].op = "generate" /\ hlog[i].pre.reseed_counter > HashInterval
        /\ hlog[i].ret.kind = "bytes"
        /\ hlog[i].post.V # hlog[i].pre.V
        /\ hlog[i].post.reseed_counter = hlog[i].pre.reseed_counter + 1

InRange(x) == 0 <= x /\ x < lcgp.m
AllInRange(values) == \A i \in 1..Len(values) : InRange(values[i])

C11_InvalidParameter ==
    lcgp.m <= 0 =>
        \A r \in Runs :
            /\ chain[r].values = <<>>
            /\ res[r].kind # "none" => res[r].ret.err

\* reached: with m < 0, lcg_next and lcg_generate_sequence have returned
\* values, all in m+1..0
C11_Witness ==
    /\ lcgp.m < 0
    /\ Len(chain[1].values) = MaxSteps
    /\ \A i \in 1..MaxSteps : lcgp.m < chain[1].values[i] /\ chain[1].values[i] <= 0
    /\ res[2].kind = "sequence" /\ res[2].n = MaxN /\ ~res[2].ret.err

IsPrime(k) == k > 1 /\ \A d \in 2..(k - 1) : k % d # 0

\* C12: bbs_init with a seed that is not coprime with p * q raises and
\* gives no state; with a coprime seed it returns a state whose x is the
\* seed as given.
C12_SeedChecked ==
    (bcall # <<>> /\ bcall.seed # NoSeed) =>
        IF gcd(bcall.seed[1], bcall.p * bcall.q) # 1
        THEN bcall.err = "ValueError" /\ bbs = NoBbs
        ELSE /\ bcall.err = "" /\ bbs # NoBbs
             /\ bbs.M = bcall.p * bcall.q
             /\ bbits = <<>> => bbs.state = bcall.seed[1]

\* reached: a seed that is a non-zero multiple of q only, refused
C12_Witness ==
    /\ bcall # <<>> /\ bcall.seed # NoSeed /\ bcall.seed # <<0>>
    /\ bcall.q > 1 /\ bcall.seed[1] % bcall.q = 0
    /\ gcd(bcall.seed[1], bcall.p) = 1
    /\ bcall.err = "ValueError" /\ bbs = NoBbs

\* C13: in every state bbs_init has returned and bbs_next_bit has stepped,
\* x is coprime with n.
C13_Coprime == bbs # NoBbs => gcd(bbs.state, bbs.M) = 1

\* reached: a state with two distinct Blum primes stepped MaxBits times
\* away from its seed
C13_Witness ==
    /\ bbs # NoBbs /\ Len(bbits) = MaxBits
    /\ bbs.p # bbs.q /\ bbs.p % 4 = 3 /\ bbs.q % 4 = 3
    /\ bcall.seed # NoSeed /\ bbs.state # bcall.seed[1] /\ bbs.state > 1

\* C14: in every state bbs_init returns, p and q are distinct primes, each
\* congruent to 3 modulo 4.
C14_BlumPrimes ==
    bbs # NoBbs =>
        /\ bbs.p # bbs.q
        /\ IsPrime(bbs.p) /\ IsPrime(bbs.q)
        /\ bbs.p % 4 = 3 /\ bbs.q % 4 = 3

\* reached: a state with p = q = 4 that has given bits
C14_Witness ==
    /\ bbs # NoBbs /\ bbs.p = 4 /\ bbs.q = 4 /\ bbs.M = 16
    /\ Len(bbits) = MaxBits

\* the combiner has been called
XorCalled == xin # <<>>

\* the byte strings the combiner received all have the length of the first
SameLengths(arrays) == \A k \in 1..Len(arrays) : Len(arrays[k]) = Len(arrays[1])

\* bit b of the byte x
BitAt(x, b) == (x \div Pow2(b)) % 2

\* the byte strings that occur an odd number of times in arrays
OddInputs(arrays) ==
    {a \in {arrays[k] : k \in 1..Len(arrays)} :
        Cardinality({k \in 1..Len(arrays) : arrays[k] = a}) % 2 = 1}

\* C15: the combiner applied to [a, a] returns len(a) zero bytes, and among
\* inputs of one length an input that appears an even number of times
\* cancels: each bit of the result is the parity of that bit over the
\* inputs that appear an odd number of times.
C15_SelfCancel ==
    /\ (XorCalled /\ Len(xin.combined) = 2 /\ xin.combined[1] = xin.combined[2])
         => /\ xout.err = ""
            /\ xout.bytes = [i \in 1..Len(xin.combined[1]) |-> 0]
    /\ (XorCalled /\ xin.combined # <<>> /\ SameLengths(xin.combined))
         => /\ xout.err = ""
            /\ Len(xout.bytes) = Len(xin.combined[1])
            /\ \A i \in 1..Len(xout.bytes), b \in 0..7 :
                 BitAt(xout.bytes[i], b) =
                   Cardinality({a \in OddInputs(xin.combined) : BitAt(a[i], b) = 1}) % 2

\* reached: [a, a] with a of two non-zero bytes combined to two zero bytes
C15_Witness ==
    /\ XorCalled /\ xin.fn = "xor_bytes_list"
    /\ xin.combined = <<(<<90, 255>>), (<<90, 255>>)>>
    /\ xout = [err |-> "", bytes |-> <<0, 0>>]

\* C16: a list of byte strings that do not all have the same length makes
\* the combiner fail and return no bytes, wherever the odd one stands and
\* whether it is shorter or longer than the first.
C16_LengthMismatch ==
    (XorCalled /\ xin.combined # <<>> /\ ~SameLengths(xin.combined))
        => xout.err # "" /\ xout.bytes = <<>>

\* reached: a later input longer than the first is cut to the first's length
C16_Witness ==
    /\ XorCalled /\ xin.fn = "xor_bytes_list"
    /\ xin.combined = <<(<<255>>), (<<90, 255>>)>>
    /\ xout = [err |-> "", bytes |-> <<165>>]

\* C17: k >= 1 byte strings of one length n are combined to exactly n bytes,
\* and each bit of the i-th byte is the parity of that bit over the i-th
\* bytes of all k inputs.
C17_PositionwiseXor ==
    (XorCalled /\ xin.combined # <<>> /\ SameLengths(xin.combined))
        => /\ xout.err = ""
           /\ Len(xout.bytes) = Len(xin.combined[1])
           /\ \A i \in 1..Len(xout.bytes) :
                /\ xout.bytes[i] \in 0..255
                /\ \A b \in 0..7 :
                     BitAt(xout.bytes[i], b) =
                       Cardinality({k \in 1..Len(xin.combined) :
                                      BitAt(xin.combined[k][i], b) = 1}) % 2

\* reached: three different strings of two bytes combined
C17_Witness ==
    /\ XorCalled /\ xin.fn = "xor_bytes_list"
    /\ xin.combined = <<(<<90, 255>>), (<<255, 90>>), (<<165, 60>>)>>
    /\ xout = [err |-> "", bytes |-> <<0, 153>>]

\* C18: clone_mt given fewer than 624 outputs fails, in either build, and
\* no clone state comes out of it: the attacker holds no clone and the heap
\* holds the victim's state only.
C18_InsufficientData ==
    (last.op = "clone_mt" /\ last.given < N)
        => /\ last.err # ""
           /\ clo = 0
           /\ Len(dicts) = 1 /\ Len(lists) = 1

\* reached: clone_mt refused 623 outputs
C18_Witness ==
    /\ last.op = "clone_mt" /\ last.given = N - 1 /\ Len(seen) = N - 1
    /\ last.err = "AssertionError" /\ clo = 0

\* C19: in every state reached from mt_init or clone_mt the cursor is in
\* 0..624; an mt_extract call changes the word array (twists) iff the
\* cursor was 624 when it was entered; and on a state that only mt_extract
\* was called on, the twists number one for every 624 extractions begun,
\* the first extraction twisting.
C19_Cursor ==
    /\ \A d \in 1..Len(dicts) : dicts[d].index \in 0..N
    /\ last.op = "mt_extract" => (last.tw <=> last.idx0 = N)
    /\ \A r \in Roles :
         hist[r].ndt = 0 => hist[r].ntw = (hist[r].nex + N - 1) \div N

\* reached: the 625th extraction of the victim twists for the second time,
\* after the clone has made its first extraction and twist
C19_Witness ==
    /\ last.op = "mt_extract" /\ last.on = "victim" /\ last.tw /\ last.idx0 = N
    /\ hist["victim"] = [nex |-> N + 1, ntw |-> 2, ndt |-> 0]
    /\ hist["clone"] = [nex |-> 1, ntw |-> 1, ndt |-> 0]
    /\ dicts[vic].index = 1

\* C20: the clone's dict and list are not the victim's, and every
\* mt_extract or mt_twist on the clone leaves the victim's word array and
\* cursor as they were, and every one on the victim leaves the clone's.
C20_Independent ==
    [][(clo # 0 /\ last'.op \in {"mt_extract", "mt_twist"})
         => /\ clo # vic /\ dicts[clo].mt # dicts[vic].mt
            /\ last'.on = "clone" => Load(vic)' = Load(vic)
            /\ last'.on = "victim" => Load(clo)' = Load(clo)]_vars

\* reached: the clone was twisted and then extracted from while the victim
\* still stands where the observation left it
C20_Witness ==
    /\ clo # 0 /\ clo # vic
    /\ last.op = "mt_extract" /\ last.on = "clone"
    /\ hist["clone"] = [nex |-> 1, ntw |-> 0, ndt |-> 1]
    /\ hist["victim"] = [nex |-> N, ntw |-> 1, ndt |-> 0]
    /\ dicts[vic].index = N /\ dicts[clo].index = 1
    /\ lists[dicts[vic].mt] # lists[dicts[clo].mt]

\* C21: randint(a, b) with a <= b asks generate_bits, on every attempt, for
\* the bit length of b - a and for no other number of bits.
C21_MinimalBits ==
    (rnd.pc # "idle" /\ rnd.a <= rnd.b) => rnd.asked \subseteq {bit_length(rnd.b - rnd.a)}

\* reached: randint(5, 8), four values, has drawn 3 bits and returned
C21_Witness ==
    /\ rnd.pc = "done" /\ rnd.a = 5 /\ rnd.b = 8
    /\ rnd.asked = {3} /\ rnd.draws > 1 /\ rnd.ret.kind = "int"

\* C22: randint never makes more than 1000 draws; it goes on to another
\* draw only after a draw outside the range, returns a + value at the first
\* draw inside the range, returns None at the first draw that is refused,
\* and raises RuntimeError exactly when 1000 draws were rejected.
C22_BoundedAttempts ==
    rnd.pc # "idle" =>
      /\ rnd.draws <= max_attempts
      /\ (rnd.pc = "loop" /\ rnd.draws > 0) =>
            /\ rnd.attempt = rnd.draws
            /\ rnd.value # <<>> /\ rnd.value[1] >= rnd.range_size
      /\ (rnd.pc = "done" /\ rnd.ret.kind = "int") =>
            /\ rnd.draws = rnd.attempt + 1
            /\ rnd.value[1] < rnd.range_size
            /\ rnd.ret.val = <<rnd.a + rnd.value[1]>>
            /\ rnd.ret.val[1] \in rnd.a..rnd.b
      /\ (rnd.pc = "done" /\ rnd.ret.kind = "none") =>
            /\ rnd.draws = rnd.attempt + 1 /\ rnd.value = <<>>
            /\ drbg[1].reseed_counter > drbg[1].reseed_interval
      /\ (rnd.pc = "done" /\ rnd.ret.kind = "RuntimeError") =>
            rnd.draws = max_attempts /\ rnd.attempt = max_attempts
      /\ (rnd.pc = "done" /\ rnd.attempt = max_attempts) =>
            rnd.ret.kind = "RuntimeError"

\* reached: two draws were rejected and the third was refused, on an object
\* with reseed_interval = 2
C22_Witness ==
    /\ rnd.pc = "done" /\ rnd.ret.kind = "none"
    /\ rnd.draws = 3 /\ rnd.attempt = 2 /\ rnd.value = <<>>
    /\ drbg[1].reseed_counter = 3 /\ drbg[1].reseed_interval = 2

\* the digest bytes of the first output block of a generate call made with
\* no additional input on the object as log entry i found it
FirstBlock(i) ==
    SymBytes(CHOOSE d \in 1..Len(oracle) :
                oracle[d] = <<"hmac", <<log[i].pre.Key, log[i].pre.V>>, 0>>,
             outlen)

\* C23: generate_bits(n), n >= 0, on an object that needs no reseed returns
\* n characters '0' or '1' after one generate call, and character k is 1
\* iff bit 7 - (k - 1) % 8 of byte (k - 1) / 8 of that call's output is set.
C23_BitsOfBytes ==
    \A i \in LogIdx :
      (/\ log[i].call.op = "generate_bits" /\ log[i].call.num >= 0
       /\ log[i].pre.reseed_counter <= log[i].pre.reseed_interval)
      => /\ log[i].ret.kind = "bits"
         /\ Len(log[i].ret.val) = log[i].call.num
         /\ log[i].post.reseed_counter = log[i].pre.reseed_counter + 1
         /\ \A k \in 1..Len(log[i].ret.val) :
              /\ log[i].ret.val[k] \in {0, 1}
              /\ log[i].ret.val[k] = 1 <=>
                   byteval[FirstBlock(i)[((k - 1) \div 8) + 1]] % Pow2(8 - ((k - 1) % 8))
                     >= Pow2(7 - ((k - 1) % 8))

\* reached: 11 bits cut from two bytes of different values
C23_Witness ==
    \E i \in LogIdx :
      /\ log[i].call.op = "generate_bits" /\ log[i].call.num = 11
      /\ log[i].ret.val = <<0, 1, 0, 0, 0, 0, 0, 0, 1, 1, 0>>

\* C24: a negative num_bits given to generate_bits, or a negative num_bytes
\* given to generate, is answered with an error and not with a result.
C24_NegativeRefused ==
    \A i \in LogIdx :
      (log[i].call.op \in {"generate", "generate_bits"} /\ log[i].call.num < 0)
        => log[i].ret.kind \notin {"bytes", "bits"}

\* reached: generate_bits(-9) has returned the empty string and the object
\* has moved on by one generate call
C24_Witness ==
    \E i \in LogIdx :
      /\ log[i].call.op = "generate_bits" /\ log[i].call.num = -9
      /\ log[i].ret = Ret("bits", <<>>)
      /\ log[i].post.reseed_counter = log[i].pre.reseed_counter + 1
      /\ log[i].post.Key # log[i].pre.Key

\* C26: temper(untemper(y)) = y for every 32-bit word y, and the word
\* untemper finds is a 32-bit word.
C26_TemperUntemper ==
    /\ tpc = "inverted" => ty \subseteq WordBits
    /\ tpc = "retempered" => tz = tx /\ tz \subseteq WordBits

\* reached: an output with its two top bits set, whose state word differs
\* from it, is tempered back to itself
C26_Witness ==
    /\ tpc = "retempered" /\ tz = tx
    /\ tx = {30, 31} /\ ty # tx /\ ty # {}

\* HMAC(key, msg) as the table of the queries made has it (<<>>: never asked)
HmacOf(key, msg) ==
    IF \E d \in 1..Len(oracle) : oracle[d] = <<"hmac", <<key, msg>>, 0>>
    THEN SymBytes(CHOOSE d \in 1..Len(oracle) :
                    oracle[d] = <<"hmac", <<key, msg>>, 0>>, outlen)
    ELSE <<>>

\* <<Key, V>> once K = HMAC(K, V || sep || data) and V = HMAC(K, V) are done
RoundOf(K, V, sep, data) ==
    <<HmacOf(K, V \o <<Lit(sep)>> \o data),
      HmacOf(HmacOf(K, V \o <<Lit(sep)>> \o data), V)>>

\* <<Key, V>> after an update step with data: one round, and a second one
\* when there is data
UpdateOf(kv, data) ==
    IF data = <<>> THEN RoundOf(kv[1], kv[2], 0, data)
    ELSE RoundOf(RoundOf(kv[1], kv[2], 0, data)[1],
                 RoundOf(kv[1], kv[2], 0, data)[2], 1, data)

RECURSIVE ChainOf(_, _, _)
\* the m values V = HMAC(Key, V) takes in turn, from V on
ChainOf(K, V, m) ==
    IF m = 0 THEN <<>> ELSE <<HmacOf(K, V)>> \o ChainOf(K, HmacOf(K, V), m - 1)

RECURSIVE Flat(_)
Flat(blocks) == IF blocks = <<>> THEN <<>> ELSE Head(blocks) \o Flat(Tail(blocks))

\* <<Key, V>> when the output blocks start: after the update with the
\* additional input, if there is one
AtBlocks(i) ==
    IF log[i].call.ai = <<>> THEN <<log[i].pre.Key, log[i].pre.V>>
    ELSE UpdateOf(<<log[i].pre.Key, log[i].pre.V>>, log[i].call.ai)

\* the output blocks, then the update that follows them
StepsInOrder(i, kv, blocks) ==
    /\ log[i].ret.val = Take(Flat(blocks), log[i].call.num)
    /\ <<log[i].post.Key, log[i].post.V>> =
         UpdateOf(<<kv[1], IF blocks = <<>> THEN kv[2] ELSE blocks[Len(blocks)]>>,
                  log[i].call.ai)

\* C27: a generate call refused by the reseed check has done nothing else;
\* a successful one has updated with the additional input if there is one,
\* then produced the blocks V = HMAC(Key, V), then updated once more, with
\* or without additional input, and counted: Key is another one after it.
C27_GenerateOrder ==
    \A i \in LogIdx :
      IsGenerate(i) =>
        IF Succeeded(i)
        THEN /\ log[i].pre.reseed_counter <= log[i].pre.reseed_interval
             /\ StepsInOrder(i, AtBlocks(i),
                  ChainOf(AtBlocks(i)[1], AtBlocks(i)[2],
                          (log[i].call.num + outlen - 1) \div outlen))
             /\ log[i].post.Key # log[i].pre.Key
             /\ log[i].post.reseed_counter = log[i].pre.reseed_counter + 1
        ELSE /\ log[i].pre.reseed_counter > log[i].pre.reseed_interval
             /\ StateOf(log[i].post) = StateOf(log[i].pre)

\* reached: a generate of two blocks with no additional input, and one with
\* additional input, both with a new Key
C27_Witness ==
    /\ \E i \in LogIdx :
         /\ IsGenerate(i) /\ Succeeded(i) /\ log[i].call.ai = None
         /\ log[i].call.num = outlen + 1 /\ log[i].post.Key # log[i].pre.Key
    /\ \E i \in LogIdx :
         /\ IsGenerate(i) /\ Succeeded(i) /\ log[i].call.ai # None
         /\ log[i].post.Key # log[i].pre.Key

\* C30: reseed_counter is in 1 .. reseed_interval + 1 in every state; it is
\* 1 after instantiate and after reseed; a generate or generate_bits call
\* adds 1 when it succeeds and leaves it when refused; randint only adds.
C30_CounterRange ==
    /\ \A k \in 1..Len(drbg) :
         drbg[k].reseed_counter \in 1..(drbg[k].reseed_interval + 1)
    /\ Len(log) > 0 => log[1].pre.reseed_counter = 1
    /\ \A i \in LogIdx :
         CASE log[i].call.op = "reseed" -> log[i].post.reseed_counter = 1
           [] log[i].call.op \in {"generate", "generate_bits"} ->
                log[i].post.reseed_counter =
                  log[i].pre.reseed_counter + (IF log[i].ret = NoRet THEN 0 ELSE 1)
           [] OTHER ->
                /\ log[i].post.reseed_counter >= log[i].pre.reseed_counter
                /\ log[i].post.reseed_counter <= log[i].pre.reseed_interval + 1

\* reached: the counter went up to reseed_interval + 1 = 3 and a reseed
\* took it back to 1
C30_Witness ==
    /\ Len(log) = 3 /\ drbg[1].reseed_interval = 2
    /\ IsGenerate(1) /\ IsGenerate(2) /\ log[3].call.op = "reseed"
    /\ log[3].pre.reseed_counter = 3 /\ drbg[1].reseed_counter = 1

\* C28: a generate call that succeeds, of either variant and for any
\* num_bytes >= 0, returns exactly num_bytes bytes and adds exactly 1 to
\* reseed_counter.
C28_ExactLength ==
    /\ \A i \in LogIdx :
         (IsGenerate(i) /\ Succeeded(i) /\ log[i].call.num >= 0)
           => /\ Len(log[i].ret.val) = log[i].call.num
              /\ log[i].post.reseed_counter = log[i].pre.reseed_counter + 1
    /\ \A j \in 1..Len(hlog) :
         (hlog[j].op = "generate" /\ hlog[j].num >= 0)
           => /\ hlog[j].ret.kind = "bytes"
              /\ Len(hlog[j].ret.val) = hlog[j].num
              /\ hlog[j].post.reseed_counter = hlog[j].pre.reseed_counter + 1

\* reached: 33 bytes from the HMAC_DRBG and 33 bytes from the Hash_DRBG
C28_Witness ==
    /\ \E i \in LogIdx :
         /\ IsGenerate(i) /\ log[i].call.num = outlen + 1
         /\ Len(log[i].ret.val) = outlen + 1
    /\ \E j \in 1..Len(hlog) :
         /\ hlog[j].op = "generate" /\ hlog[j].num = hash_len + 1
         /\ Len(hlog[j].ret.val) = hash_len + 1

\* C29: in every state V and C of the Hash_DRBG have SEED_LEN = 55 bytes and
\* V and Key of the HMAC_DRBG have outlen = 32 bytes.
C29_FixedShape ==
    /\ hst # <<>> => Len(hst.V) = SEED_LEN /\ Len(hst.C) = SEED_LEN
    /\ \A k \in 1..Len(drbg) :
         Len(drbg[k].V) = outlen /\ Len(drbg[k].Key) = outlen

\* reached: the Hash_DRBG has generated and reseeded, the HMAC_DRBG stands
\* as instantiate left it
C29_Witness ==
    /\ Len(hlog) = 2 /\ hlog[1].op = "generate" /\ hlog[1].num = hash_len + 1
    /\ hlog[2].op = "reseed" /\ hst.V # hlog[1].pre.V
    /\ Len(hst.V) = SEED_LEN /\ Len(hst.C) = SEED_LEN
    /\ Len(drbg[1].V) = outlen /\ Len(drbg[1].Key) = outlen /\ log = <<>>

\* a word the cursor went past in the current block without any call
\* reading it
Skipped ==
    \E idx \in (IF tr.twists = 0 THEN tr.first ELSE 0)..(N - 1) :
        idx < sh.index /\ <<tr.twists, idx>> \notin tr.reads

\* the same word read twice, a word skipped, a twist of a state with words
\* still unread, or a read beyond the last word
BadSharing == tr.dup \/ Skipped \/ tr.twice \/ tr.past

\* C25: mt_extract has no lock; as long as no call began while another was
\* under way no word is read twice or skipped, no twist comes too early and
\* no read falls beyond the last word, and with overlapping calls each of
\* these happens (the witness).
C25_SerialOnly == BadSharing => tr.overlap

\* reached: both threads tested the cursor of a fresh state, both twisted,
\* and both were handed the same word
C25_Witness ==
    /\ tr.overlap /\ tr.twice /\ tr.dup /\ tr.twists = 2
    /\ \A t \in Threads : th[t].pc = "idle" /\ Len(th[t].rets) = 1
    /\ th[1].rets = th[2].rets /\ th[1].rets[1] # <<>>
    /\ sh.index = 2 /\ Skipped

\* C31: a step that makes randint(a, b) return an integer returns one of
\* a..b; the step that enters randint with a > b raises ValueError at once,
\* with no draw made and Key, V and reseed_counter (and the digests computed
\* so far) as they were.
C31_InRange ==
    [][/\ (rnd'.pc = "done" /\ rnd'.ret.kind = "int") =>
            /\ rnd'.a <= rnd'.b
            /\ rnd'.ret.val[1] >= rnd'.a /\ rnd'.ret.val[1] <= rnd'.b
       /\ (rnd.pc = "idle" /\ rnd'.pc # "idle" /\ rnd'.a > rnd'.b) =>
            /\ rnd'.pc = "done" /\ rnd'.ret.kind = "ValueError"
            /\ rnd'.draws = 0
            /\ drbg' = drbg /\ oracle' = oracle /\ byteval' = byteval
       /\ (rnd.pc = "done" /\ rnd.a > rnd.b) => rnd' = rnd]_vars

\* reached: randint(7, 5) has raised ValueError on an object that is as
\* instantiation left it
C31_Witness ==
    /\ rnd.pc = "done" /\ rnd.a = 7 /\ rnd.b = 5
    /\ rnd.ret.kind = "ValueError" /\ rnd.draws = 0
    /\ drbg[1].reseed_counter = 1 /\ byteval = <<>>

\* what C32 says of the results of lcg_generate_bytes (run 1) and
\* lcg_generate_sequence (run 2) called with the same n
SameLowBytes ==
    /\ ~res[1].ret.err /\ ~res[2].ret.err
    /\ Len(res[1].ret.values) = Len(res[2].ret.values)
    /\ \A i \in 1..Len(res[1].ret.values) :
         res[1].ret.values[i] = res[2].ret.values[i] % 256
    /\ res[1].ret.state = res[2].ret.state

BytesAndSequence ==
    /\ lcgp.m > 0
    /\ res[1].kind = "bytes" /\ res[2].kind = "sequence"
    /\ res[1].n = res[2].n

\* C32 as stated: for every n, with m > 0, byte i of lcg_generate_bytes is
\* the low 8 bits of element i of lcg_generate_sequence and both calls end
\* in the same final state.
C32_Original == BytesAndSequence => SameLowBytes

\* C32: for every n >= 0, with m > 0, lcg_generate_bytes and
\* lcg_generate_sequence return n elements each, byte i is the low 8 bits
\* of element i, and the final states are equal.
C32_LowBytes ==
    (BytesAndSequence /\ res[1].n >= 0) =>
        SameLowBytes /\ Len(res[1].ret.values) = res[1].n

\* reached: MaxN bytes of a sequence with elements above 255
C32_Witness ==
    /\ BytesAndSequence /\ res[1].n = MaxN /\ SameLowBytes
    /\ \E i \in 1..MaxN : res[2].ret.values[i] > 255
    /\ \E i \in 1..MaxN : res[1].ret.values[i] # 0

\* x^2 mod n
SquareMod(x, n) == (x * x) % n

RECURSIVE SquaredTimes(_, _, _)
\* x squared i times modulo n
SquaredTimes(x, times, modulus) ==
    IF times = 0 THEN x
    ELSE IF times = 1 THEN SquareMod(x, modulus)
    ELSE LET half == SquaredTimes(x, times \div 2, modulus)
         IN  \* the test evaluates the first half before the second starts
             IF half >= 0 THEN SquaredTimes(half, times - times \div 2, modulus)
             ELSE half

\* the state of the generator of pk after i squarings of the seed
BbsStateAt(pos) == SquaredTimes(pk.seed, pos, pk.p * pk.q)

\* bit i (from 1) of the stream: the parity of the i-th state after the seed
StreamBit(pos) == BbsStateAt(pos) % 2

\* the bits from..from+width-1 of the stream as a number, the first highest
StreamWord(from, width) ==
    {width - 1 - off : off \in {d \in 0..(width - 1) : StreamBit(from + d) = 1}}

\* the bit list holds the first bits of the stream
BitsAreStream(r, count) ==
    /\ r.err = "" /\ Len(r.val) = count
    /\ \A b \in 1..count : r.val[b] = StreamBit(b)
    /\ r.st.state = BbsStateAt(count)

\* C33: with the seed, p and q fixed and accepted by bbs_init, every
\* function emits the same stream, whose bit i is the parity of the i-th
\* square after the seed: bbs_generate_bits the bits as they come, the bit
\* string their digits, bbs_generate_bytes eight bits per byte with the
\* first bit highest (the bits 8i..8i+7 of bbs_generate_bits(8n) for byte
\* i), and the k-th bbs_next_int32 the bits 32(k-1)+1..32k with the first
\* bit highest.
C33_OneStream ==
    pk.st # NoBbs =>
      /\ pk.bits # NotCalled => BitsAreStream(pk.bits[1], pk.nbits)
      /\ pk.str # NotCalled =>
           /\ pk.str[1].err = "" /\ Len(pk.str[1].val) = pk.nstr
           /\ \A i \in 1..pk.nstr : pk.str[1].val[i] = BitChar(StreamBit(i))
      /\ (pk.bytes # NotCalled /\ pk.nbytes >= 0) =>
           /\ pk.bytes[1].err = "" /\ Len(pk.bytes[1].val) = pk.nbytes
           /\ \A i \in 1..pk.nbytes :
                pk.bytes[1].val[i] = IntOf(StreamWord(8 * (i - 1) + 1, 8), 0)
           /\ (pk.bits # NotCalled /\ pk.nbits = 8 * pk.nbytes) =>
                \A i \in 1..pk.nbytes :
                   Bits(pk.bytes[1].val[i], 0) =
                     {7 - j : j \in {k \in 0..7 : pk.bits[1].val[8 * (i - 1) + k + 1] = 1}}
      /\ \A k \in 1..Len(pk.ints) : pk.ints[k] = StreamWord(32 * (k - 1) + 1, 32)
      /\ pk.st.state = BbsStateAt(32 * Len(pk.ints))

\* reached: bits, bytes and an integer drawn from one seed, with a first
\* byte that reads differently from its two ends
C33_Witness ==
    /\ pk.st # NoBbs /\ Len(pk.ints) = MaxInts
    /\ pk.bits # NotCalled /\ pk.bytes # NotCalled /\ pk.str # NotCalled
    /\ pk.nbytes = MaxPackBytes /\ pk.nbits = 8 * MaxPackBytes
    /\ pk.nstr = 8 * MaxPackBytes
    /\ Bits(pk.bytes[1].val[1], 0) # {7 - j : j \in Bits(pk.bytes[1].val[1], 0)}
    /\ Shr(pk.ints[1], 24) = Bits(pk.bytes[1].val[1], 0)
    /\ StreamBit(1) # pk.seed % 2

\* ceil(n / 4) for n >= 0
WordsFor(n) == (n + 3) \div 4

\* C34: for n >= 0, mt_generate_bytes(n, seed) returns n bytes; byte i is
\* byte (i mod 4) of the big-endian encoding of output (i div 4) of
\* mt_generate_sequence on the same seed, and the state returned is the
\* state mt_generate_sequence returns after ceil(n / 4) outputs.
C34_PackedWords ==
    (mb.bytes # NotCalled /\ mb.nbytes >= 0) =>
      /\ Len(mb.bytes[1].values) = mb.nbytes
      /\ Len(mb.seq[1].values) = WordsFor(mb.nbytes)
      /\ \A i \in 0..(mb.nbytes - 1) :
            mb.bytes[1].values[i + 1] =
              IntOf(Shr(mb.seq[1].values[(i \div 4) + 1], 24 - 8 * (i % 4)) \cap (0..7), 0)
      /\ mb.bytes[1].state = mb.seq[1].state

\* reached: 4 * MaxWords - 1 bytes, the last word cut, the state that of
\* MaxWords extractions, and a first word whose four bytes differ
C34_Witness ==
    /\ mb.bytes # NotCalled /\ mb.nbytes = 4 * MaxWords - 1
    /\ mb.n = MaxWords /\ Len(mb.seq[1].values) = MaxWords
    /\ mb.bytes[1].state = mb.seq[1].state /\ mb.bytes[1].state.index = MaxWords
    /\ Cardinality({mb.bytes[1].values[i] : i \in 1..4}) = 4

\* C38: for n >= 0 and any seed, also one wider than 32 bits, generate(seed,
\* n) of MT19937.py returns the list of values mt_generate_sequence(n, seed)
\* returns.
C38_SameSequence ==
    (mb.gen # NotCalled /\ mb.n >= 0) =>
        /\ Len(mb.gen[1]) = mb.n
        /\ mb.gen[1] = mb.seq[1].values

\* reached: N + 1 values from the seed 2^33 + 2^31, the last one from the
\* second block
C38_Witness ==
    /\ mb.gen # NotCalled /\ mb.n = N + 1 /\ mb.seed = {31, 33}
    /\ Len(mb.gen[1]) = N + 1 /\ mb.gen[1] = mb.seq[1].values
    /\ mb.seq[1].state.index = 1
    /\ mb.gen[1][N + 1] # mb.gen[1][1]

\* the values returned so far, as the values one caller gets from the state
\* the threads started with
SingleCaller ==
    [i \in 1..Len(tr.order) |-> <<ObserveLoop(tr.start, <<>>, Len(tr.order))[2][i]>>]

\* C35: when a call of mt_extract begins only once the call before it has
\* returned, whichever thread makes it, the cursor stays in 0..624, the values
\* returned are in order the values a single caller gets, and no word is read
\* twice, skipped, twisted away unread or read beyond the last word.
C35_Serialized ==
    /\ sh.index >= 0 /\ sh.index <= N
    /\ tr.order = SingleCaller
    /\ ~BadSharing /\ ~tr.overlap

\* reached: each thread has made its calls, one of them through the twist
C35_Witness ==
    /\ \A t \in Threads : th[t].pc = "idle" /\ th[t].calls = MaxExtracts
    /\ Len(tr.order) = 2 * MaxExtracts /\ tr.twists = 1
    /\ th[2].rets[1] = tr.order[1] /\ th[1].rets[1] # th[2].rets[1]
    /\ sh.index = 2 * MaxExtracts

\* the draw of the loop iteration that has just run was refused by generate
LastRefused == rnd.pc = "done" /\ rnd.ret.kind = "none"

\* the draws of the randint call that generate served: all but a refused one
Served == IF LastRefused THEN rnd.draws - 1 ELSE rnd.draws

\* C36 as stated: a randint call that has made k attempts has advanced
\* reseed_counter, 1 on a new object, by k.
C36_Original ==
    rnd.pc # "idle" => drbg[1].reseed_counter = 1 + rnd.draws

\* C36: every attempt of randint is one generate call. An attempt that
\* generate serves, whether its value is accepted or rejected, adds one to
\* reseed_counter and replaces Key and V; the attempt that generate refuses
\* leaves the object as it is and ends the call with None. A call that has
\* made k attempts has advanced reseed_counter by k, or by k - 1 when the
\* last one was refused, and one that raises RuntimeError by 1000.
C36_ServedAttempts ==
    [][/\ (rnd.pc = "loop" /\ rnd'.draws = rnd.draws + 1) =>
            IF rnd'.value # <<>>
            THEN /\ drbg'[1].reseed_counter = drbg[1].reseed_counter + 1
                 /\ drbg'[1].Key # drbg[1].Key
                 /\ drbg'[1].V # drbg[1].V
                 /\ drbg[1].reseed_counter <= drbg[1].reseed_interval
                 /\ rnd'.pc = "loop" <=> rnd'.value[1] >= rnd.range_size
            ELSE /\ drbg' = drbg
                 /\ drbg[1].reseed_counter > drbg[1].reseed_interval
                 /\ rnd'.pc = "done" /\ rnd'.ret.kind = "none"
       /\ (rnd'.pc # "idle") =>
            /\ drbg'[1].reseed_counter =
                 1 + (IF rnd'.pc = "done" /\ rnd'.ret.kind = "none" /\ rnd'.draws > 0
                      THEN rnd'.draws - 1 ELSE rnd'.draws)
            /\ rnd'.ret.kind = "RuntimeError" =>
                 drbg'[1].reseed_counter = 1 + max_attempts
      ]_vars

\* reached: randint called on a new object with reseed_interval = 1 had its
\* first draw rejected and its second refused: it returns None and leaves the
\* object with reseed_counter = 2
C36_Witness ==
    /\ LastRefused /\ rnd.draws = 2 /\ Served = 1
    /\ drbg[1].reseed_interval = 1 /\ drbg[1].reseed_counter = 2

\* the first k elements of two lists are the same
SamePrefix(s, t) ==
    \A i \in 1..(IF Len(s) < Len(t) THEN Len(s) ELSE Len(t)) : s[i] = t[i]

\* the n elements a call asked for n returns
Asked(n) == IF n < 0 THEN 0 ELSE n

\* C37: with m > 0, for every seed, a and c, the list of lcg(seed, a, c, m, n),
\* the values of chained lcg_next calls begun at the seed itself, the values
\* yielded by the generator lcg, and the list of lcg_generate_sequence, which
\* begins at seed % m, agree element by element, and the two lists have
\* max(n, 0) elements.
C37_SameSequence ==
    lcgp.m > 0 =>
      /\ SamePrefix(chain[1].values, lg.gen.values)
      /\ lg.list.kind = "list" =>
           /\ ~lg.list.ret.err
           /\ Len(lg.list.ret.values) = Asked(lg.list.n)
           /\ SamePrefix(lg.list.ret.values, chain[1].values)
           /\ SamePrefix(lg.list.ret.values, lg.gen.values)
      /\ res[1].kind = "sequence" =>
           /\ ~res[1].ret.err
           /\ Len(res[1].ret.values) = Asked(res[1].n)
           /\ SamePrefix(res[1].ret.values, chain[1].values)
           /\ SamePrefix(res[1].ret.values, lg.gen.values)
           /\ lg.list.kind = "list" =>
                SamePrefix(res[1].ret.values, lg.list.ret.values)

\* reached: the four give the same MaxN values from a seed that
\* lcg_generate_sequence reduces and the others do not
C37_Witness ==
    /\ lcgp.m > 0 /\ lcgp.seed # PyMod(lcgp.seed, lcgp.m)
    /\ res[1].kind = "sequence" /\ res[1].ret.init # lg.list.ret.init
    /\ lg.list.kind = "list" /\ lg.list.n = MaxN /\ res[1].n = MaxN
    /\ Len(chain[1].values) = MaxN /\ Len(lg.gen.values) = MaxN
    /\ lg.list.ret.values = chain[1].values
    /\ lg.gen.values = chain[1].values
    /\ res[1].ret.values = chain[1].values
    /\ chain[1].values[1] # chain[1].values[MaxN]

=============================================================================
